---- MODULE Spec2Model ----
(***************************************************************************)
(* Model of the alerting / notification / live-stream core of tracely's    *)
(* API service:                                                            *)
(*   - cooldown and alert-event bookkeeping (alert_evaluator.fire_alert,   *)
(*     resolve_alert), driven by the threshold scheduler, together with    *)
(*     the manual event operations of alert_service;                       *)
(*   - the notification dispatcher with its single retry per channel;      *)
(*   - the per-project SSE connection manager and the stream endpoint's    *)
(*     event generator.                                                    *)
(***************************************************************************)
EXTENDS Integers, Sequences, FiniteSets, TLC

(***************************************************************************)
(* Program constants                                                       *)
(***************************************************************************)
EVALUATION_INTERVAL == 60

DEFAULT_COOLDOWN_SECONDS == 300

RETRY_DELAY_SECONDS == 30

QUEUE_MAX_SIZE == 256

HEARTBEAT_INTERVAL_S == 15

COUNTER_TTL == 600

(***************************************************************************)
(* Bounds of the model                                                     *)
(***************************************************************************)
MaxEvents == 2

\* interventions from outside the scheduler: manual operations and cache outages
MaxEnvOps == 1

MaxRuleEdits == 1

\* increments a minute bucket of the model receives at most
MaxBucket == 2

\* minutes the run of the per-minute counters lasts
MaxMinute == 12

\* increments the batches of that run attempt in all
MaxIncrements == 4

\* increments attempted in a run that lasts until the keys expire
MaxLongRunIncrements == 2

\* minutes of a run in which error rates are read
MaxRateMinute == 2

MaxBeats == 2

MaxPayloadSize == 30

MaxSpans == 4

BeatStep == 5

MaxStarts == 3

MaxStops == 2

MaxDispatches == 2

MaxDispatchTime == 45

TickSeconds == 15

MaxBroadcasts == 2

MaxReads == 1

Rules == {"r1", "r2"}

MetricValues == {7, 9}

RuleThreshold == 5

Projects == {"p1", "p2"}

\* the project whose traffic is followed where one project is enough
BusyProject == "p1"

Conns == {"c1", "c2"}

ConfigurableChannels == {"slack", "discord"}

\* number of spans of an ingested batch
BatchSizes == {1, QUEUE_MAX_SIZE}

None == "None"

\* a value of datetime.now(timezone.utc)
Stamp == "now"

VARIABLES
    cache,        \* state of the Redis cache: "up", or "down" (every operation errors)
    cooldown,     \* alert:cooldown:{rule} keys: rule -> remaining TTL in seconds, 0 when the key is absent
    events,       \* alert_events table, in insertion order (the order of triggered_at)
    evaluated,    \* rules already handled in the scheduler's current cycle
    lastOp,       \* per rule: outcome of the last operation that touched the rule or its events
    lastValue,    \* metric value of the scheduler's latest evaluation result
    env,          \* number of manual operations and of cache state changes so far
    dispatch,     \* the Dispatch call in progress (dispatch_alert_notification)
    tasks,        \* channel -> the channel's _dispatch_with_retry task
    channels,     \* ConnectionManager._channels: project -> set of registered queues
    queue,        \* connection -> content of its asyncio.Queue
    gen,          \* connection -> state of the endpoint's event generator
    stream        \* counters and the record of the last broadcast

VARIABLES
    session,      \* state of the scheduler cycle's database session: "ok" or "inactive"
    fault,        \* what failed in the scheduler's latest rule evaluation ("none" when nothing did)
    handed,       \* ids of the events handed to dispatch_alert_notification_async
    ruleCfg       \* rule -> number of edits made to the rule's configuration

cycleVars == <<session, fault, handed, ruleCfg>>

VARIABLES
    sched,        \* the module globals of alert_scheduler: _scheduler_running, _scheduler_task
    loops,        \* task id -> state of that _scheduler_loop task
    stops         \* call id -> position of that stop_scheduler call

lifeVars == <<sched, loops, stops>>

VARIABLES
    counters,     \* alert:counter:{project}:{metric}:{minute} keys inside the window: project -> counts
    lastCall      \* the latest call of a counter-store function made by a caller outside the ingestion task

storeVars == <<counters, lastCall>>

VARIABLES
    calls,        \* call id -> an ingest_traces call: its input, position and outcome
    ctasks,       \* call id -> the _update_alert_counters task the call created
    store         \* call id -> the client.insert calls the call has made on the columnar store

ingestVars == <<calls, ctasks, store>>

VARIABLES
    now,          \* the current minute, int(time.time()) // 60
    buckets,      \* alert:counter:{project}:{metric}:{minute} keys of one project: metric -> minute -> value, 0 when the key is absent
    made,         \* metric -> minute -> increments that were applied during that minute
    batch,        \* the _update_alert_counters task at work on the per-minute keys
    reading       \* the last call of get_request_count, get_error_count or get_error_rate

windowVars == <<now, buckets, made, batch, reading>>

VARIABLES
    evalCase      \* the last call of an evaluate_* function: its inputs and its EvaluationResult

evalVars == <<evalCase>>

VARIABLES
    http          \* request id -> a request to POST /v1/traces and its response

httpVars == <<http>>

VARIABLES
    beat          \* connection -> the wait of the read loop and what the loop has yielded

beatVars == <<beat>>

VARIABLES
    live,         \* the (project, queue) pairs connected and not yet disconnected
    regOp         \* the last call made on the connection manager and what it did

regVars == <<live, regOp>>

VARIABLES
    chanRows,     \* channel type -> the project's notification_channels row of that type
    sizing,       \* the last extract_spans call: payload size, span count, row_size_bytes of the rows
    inst          \* scheduler instance -> where it stands in its evaluation of the rule

tailVars == <<chanRows, sizing, inst>>

priorVars == <<cycleVars, lifeVars, storeVars, ingestVars, tailVars>>

laterVars == <<windowVars, evalVars, httpVars, beatVars, regVars, tailVars>>

extVars == <<priorVars, laterVars>>

vars == <<cache, cooldown, events, evaluated, lastOp, lastValue, env, dispatch, tasks,
          channels, queue, gen, stream, extVars>>

alertVars == <<cache, cooldown, events, evaluated, lastOp, lastValue, env>>

dispatchVars == <<dispatch, tasks>>

streamVars == <<channels, queue, gen, stream>>

allButTail == <<alertVars, dispatchVars, streamVars, cycleVars, lifeVars, storeVars, ingestVars,
                windowVars, evalVars, httpVars, beatVars, regVars>>

(***************************************************************************)
(* Cooldown tokens (alert_counters)                                        *)
(***************************************************************************)
TokenPresent(r) == cooldown[r] > 0

is_in_cooldown_never(r) == FALSE

\* a check that would answer from the token without reaching the server
is_in_cooldown_without_server(r) == TokenPresent(r)

\* exists(key) > 0; an erroring operation is swallowed and reads as False
is_in_cooldown(r) == cache = "up" /\ TokenPresent(r)

\* setex(key, ttl, "1"); a failure is swallowed
set_cooldown(r, ttl) == IF cache = "up" THEN [cooldown EXCEPT ![r] = ttl] ELSE cooldown

clear_cooldown_noop(r) == cooldown

\* delete(key); a failure is swallowed
clear_cooldown(r) == IF cache = "up" THEN [cooldown EXCEPT ![r] = 0] ELSE cooldown

(***************************************************************************)
(* Alert events                                                            *)
(***************************************************************************)
OpenStatusesActiveOnly == {"active"}

OpenStatuses == {"triggered", "active"}

EventIds == 1..Len(events)

OpenEvents(r) == {i \in EventIds : events[i].rule = r /\ events[i].status \in OpenStatuses}

\* select ... where rule_id = r and status in (triggered, active)
\*        order by triggered_at desc limit 1
\* triggered_at is the insertion time, so the latest row is the last one inserted
LatestOpen(r) == {i \in OpenEvents(r) : \A j \in OpenEvents(r) : j <= i}

NewEvent(r, v) ==
    [rule |-> r, status |-> "triggered", metric_value |-> v,
     threshold_value |-> RuleThreshold, resolved_at |-> None, notification_sent |-> FALSE]


fire_alert_renewing(r, v) ==
    IF is_in_cooldown(r)
    THEN IF LatestOpen(r) # {}
         THEN \E e \in LatestOpen(r) :
                /\ events' = [events EXCEPT ![e].status = "active", ![e].metric_value = v]
                /\ lastOp' = [lastOp EXCEPT ![r] = "updated"]
                /\ cooldown' = set_cooldown(r, DEFAULT_COOLDOWN_SECONDS)
         ELSE /\ lastOp' = [lastOp EXCEPT ![r] = "suppressed"]
              /\ UNCHANGED <<events, cooldown>>
    ELSE /\ Len(events) < MaxEvents
         /\ events' = Append(events, NewEvent(r, v))
         /\ cooldown' = set_cooldown(r, DEFAULT_COOLDOWN_SECONDS)
         /\ lastOp' = [lastOp EXCEPT ![r] = "inserted"]

\* alert_evaluator.fire_alert(db, rule, result) for a triggered result with metric value v
fire_alert(r, v) ==
    IF is_in_cooldown(r)
    THEN IF LatestOpen(r) # {}
         THEN \E e \in LatestOpen(r) :
                /\ events' = [events EXCEPT ![e].status = "active", ![e].metric_value = v]
                /\ lastOp' = [lastOp EXCEPT ![r] = "updated"]
                /\ UNCHANGED cooldown
         ELSE /\ lastOp' = [lastOp EXCEPT ![r] = "suppressed"]
              /\ UNCHANGED <<events, cooldown>>
    ELSE /\ Len(events) < MaxEvents
         /\ events' = Append(events, NewEvent(r, v))
         /\ cooldown' = set_cooldown(r, DEFAULT_COOLDOWN_SECONDS)
         /\ lastOp' = [lastOp EXCEPT ![r] = "inserted"]

\* how a resolve ended: token deleted, no token to delete, or delete failed
ResolveOutcome(r) ==
    IF cache # "up" THEN "resolved_uncleared"
    ELSE IF TokenPresent(r) THEN "resolved_in_cooldown" ELSE "resolved"

\* alert_evaluator.resolve_alert(db, rule)
resolve_alert(r) ==
    IF LatestOpen(r) # {}
    THEN \E e \in LatestOpen(r) :
           /\ events' = [events EXCEPT ![e].status = "resolved", ![e].resolved_at = Stamp]
           /\ cooldown' = clear_cooldown(r)
           /\ lastOp' = [lastOp EXCEPT ![r] = ResolveOutcome(r)]
    ELSE /\ lastOp' = [lastOp EXCEPT ![r] = "noop"]
         /\ UNCHANGED <<events, cooldown>>

(***************************************************************************)
(* Scheduler (alert_scheduler)                                             *)
(***************************************************************************)
\* one iteration of the loop over the active threshold rules: triggered result
SchedFire(r, v) ==
    /\ r \notin evaluated
    /\ fire_alert(r, v)
    /\ lastValue' = v
    /\ evaluated' = evaluated \cup {r}
    /\ UNCHANGED <<cache, env, dispatchVars, streamVars, extVars>>

\* one iteration of the loop: non-triggered result
SchedResolve(r) ==
    /\ r \notin evaluated
    /\ resolve_alert(r)
    /\ lastValue' = 0
    /\ evaluated' = evaluated \cup {r}
    /\ UNCHANGED <<cache, env, dispatchVars, streamVars, extVars>>

\* end of the cycle: asyncio.sleep(EVALUATION_INTERVAL); expired keys vanish
SchedSleep ==
    /\ evaluated = Rules
    /\ cooldown' = [r \in Rules |-> IF cooldown[r] > EVALUATION_INTERVAL THEN cooldown[r] - EVALUATION_INTERVAL ELSE 0]
    /\ evaluated' = {}
    /\ UNCHANGED <<cache, events, lastOp, lastValue, env, dispatchVars, streamVars, extVars>>

(***************************************************************************)
(* Manual event operations (alert_service)                                 *)
(***************************************************************************)
ManualRecord(e) == [lastOp EXCEPT ![events[e].rule] = "manual"]

resolve_alert_event(e) ==
    /\ e \in EventIds
    /\ env.manual + env.cacheChanges < MaxEnvOps
    /\ env' = [env EXCEPT !.manual = @ + 1]
    /\ events' = [events EXCEPT ![e].status = "resolved", ![e].resolved_at = Stamp]
    /\ lastOp' = ManualRecord(e)
    /\ UNCHANGED <<cache, cooldown, evaluated, lastValue, dispatchVars, streamVars, extVars>>

acknowledge_alert_event(e) ==
    /\ e \in EventIds
    /\ env.manual + env.cacheChanges < MaxEnvOps
    /\ env' = [env EXCEPT !.manual = @ + 1]
    /\ events' = [events EXCEPT ![e].status = "acknowledged"]
    /\ lastOp' = ManualRecord(e)
    /\ UNCHANGED <<cache, cooldown, evaluated, lastValue, dispatchVars, streamVars, extVars>>

(***************************************************************************)
(* Cache availability: an outage of the Redis server begins or ends        *)
(***************************************************************************)
CacheChange(s) ==
    /\ s # cache
    /\ env.manual + env.cacheChanges < MaxEnvOps
    /\ env' = [env EXCEPT !.cacheChanges = @ + 1]
    /\ cache' = s
    /\ UNCHANGED <<cooldown, events, evaluated, lastOp, lastValue, dispatchVars, streamVars, extVars>>

\* schemas/alert.AlertEventStatus: the statuses AlertEventOut validates
AlertEventStatus == {"active", "resolved", "acknowledged"}

\* alert_service.get_alert_history over the stored rows: every row is passed
\* to AlertEventOut, whose validation raises on a status outside the Literal
get_alert_history(rows) ==
    [raised |-> \E i \in 1..Len(rows) : rows[i].status \notin AlertEventStatus,
     events |-> IF \E i \in 1..Len(rows) : rows[i].status \notin AlertEventStatus THEN <<>> ELSE rows]

(***************************************************************************)
(* Notification dispatcher (notifications/dispatcher)                      *)
(***************************************************************************)
Channels == {"email"} \cup ConfigurableChannels

\* what one invocation of a channel's dispatch function can do: return a
\* successful DispatchResult, return a failed one, or raise. The senders catch
\* every exception; _dispatch_email looks the admin addresses up in the
\* database outside any try block.
InvocationOutcomes(c) == IF c = "email" THEN {"ok", "fail", "raise"} ELSE {"ok", "fail"}

IdleTask == [pc |-> "none", args |-> <<>>, invs |-> <<>>, wake |-> 0, result |-> None]

ShouldRetryAlways(success) == TRUE

\* if not result.success:
ShouldRetry(success) == ~success

NotificationSentAll(results) == \A c \in DOMAIN results : results[c].success

\* successful = sum(1 for r in results if r.success); successful > 0
NotificationSent(results) == Cardinality({c \in DOMAIN results : results[c].success}) > 0

Attempted == {c \in Channels : tasks[c].pc # "none"}

\* dispatch_alert_notification up to the gather: one task for email and one per
\* enabled slack / discord channel of the project
DispatchStart(enabled) ==
    /\ dispatch.state # "gathering"
    /\ \A c \in Channels : tasks[c].pc \in {"none", "done", "raised"}
    /\ dispatch.calls < MaxDispatches
    /\ dispatch' = [dispatch EXCEPT !.state = "gathering", !.calls = @ + 1, !.clock = 0, !.results = <<>>]
    /\ tasks' = [c \in Channels |->
                    IF c = "email" \/ c \in enabled
                    THEN [IdleTask EXCEPT !.pc = "call", !.args = <<c, dispatch.calls + 1>>]
                    ELSE IdleTask]
    /\ UNCHANGED <<alertVars, streamVars, extVars>>

\* _dispatch_with_retry: an invocation of dispatch_fn(*args), the first one or
\* the retry, and what follows from its outcome
TaskCall(c, outcome) ==
    LET t == tasks[c]
        inv == [args |-> t.args, outcome |-> outcome, at |-> dispatch.clock]
        first == Len(t.invs) = 0
    IN /\ t.pc = "call"
       /\ outcome \in InvocationOutcomes(c)
       /\ tasks' = [tasks EXCEPT ![c] =
            IF outcome = "raise"
            THEN [t EXCEPT !.pc = "raised", !.invs = Append(@, inv)]
            ELSE IF first /\ ShouldRetry(outcome = "ok")
            THEN [t EXCEPT !.pc = "sleep", !.invs = Append(@, inv),
                           !.wake = dispatch.clock + RETRY_DELAY_SECONDS]
            ELSE [t EXCEPT !.pc = "done", !.invs = Append(@, inv),
                           !.result = [success |-> outcome = "ok", retried |-> ~first]]]
       /\ UNCHANGED <<dispatch, alertVars, streamVars, extVars>>

\* asyncio.sleep(RETRY_DELAY_SECONDS) returns
TaskWake(c) ==
    /\ tasks[c].pc = "sleep"
    /\ dispatch.clock >= tasks[c].wake
    /\ tasks' = [tasks EXCEPT ![c].pc = "call"]
    /\ UNCHANGED <<dispatch, alertVars, streamVars, extVars>>

\* time passes
DispatchTick ==
    /\ dispatch.state = "gathering" \/ \E c \in Channels : tasks[c].pc = "sleep"
    /\ dispatch.clock + TickSeconds <= MaxDispatchTime
    /\ dispatch' = [dispatch EXCEPT !.clock = @ + TickSeconds]
    /\ UNCHANGED <<tasks, alertVars, streamVars, extVars>>

\* asyncio.gather(*tasks) re-raises the first exception of a task; the other
\* tasks keep running, their results are lost
GatherRaise ==
    /\ dispatch.state = "gathering"
    /\ \E c \in Channels : tasks[c].pc = "raised"
    /\ dispatch' = [dispatch EXCEPT !.state = "raised"]
    /\ UNCHANGED <<tasks, alertVars, streamVars, extVars>>

\* every task returned: the results are collected, event.notification_sent is
\* set and committed
DispatchReturn ==
    /\ dispatch.state = "gathering"
    /\ \A c \in Attempted : tasks[c].pc = "done"
    /\ LET results == [c \in Attempted |-> tasks[c].result]
       IN dispatch' = [dispatch EXCEPT !.state = "returned", !.results = results,
                                       !.notification_sent = NotificationSent(results)]
    /\ UNCHANGED <<tasks, alertVars, streamVars, extVars>>

(***************************************************************************)
(* Live connection manager (stream_manager.ConnectionManager)              *)
(***************************************************************************)
\* ConnectionManager.connect: a new bounded queue registered under the project
connect(chs, p, c) ==
    IF p \in DOMAIN chs
    THEN [chs EXCEPT ![p] = @ \cup {c}]
    ELSE [q \in DOMAIN chs \cup {p} |-> IF q = p THEN {c} ELSE chs[q]]

disconnect_keeps_entry(chs, p, c) ==
    IF p \notin DOMAIN chs THEN chs ELSE [chs EXCEPT ![p] = @ \ {c}]

\* ConnectionManager.disconnect: discard the queue, drop the empty channel
disconnect(chs, p, c) ==
    IF p \notin DOMAIN chs THEN chs
    ELSE IF chs[p] \ {c} = {}
    THEN [q \in DOMAIN chs \ {p} |-> chs[q]]
    ELSE [chs EXCEPT ![p] = @ \ {c}]

\* ConnectionManager.connection_count
connection_count(chs, p) == IF p \in DOMAIN chs THEN Cardinality(chs[p]) ELSE 0

put_nowait_evict(q, e) ==
    IF Len(q) >= QUEUE_MAX_SIZE
    THEN [q |-> Append(Tail(q), e), exc |-> "none"]
    ELSE [q |-> Append(q, e), exc |-> "none"]

put_nowait_unbounded(q, e) == [q |-> Append(q, e), exc |-> "none"]

\* asyncio.Queue(maxsize=QUEUE_MAX_SIZE).put_nowait
put_nowait(q, e) ==
    IF Len(q) >= QUEUE_MAX_SIZE
    THEN [q |-> q, exc |-> "QueueFull"]
    ELSE [q |-> Append(q, e), exc |-> "none"]

\* except asyncio.QueueFull
CaughtByBroadcast == {"QueueFull"}

broadcast_everyone(chs, qs, p, e) ==
    [qs |-> [c \in Conns |-> IF \E q \in DOMAIN chs : c \in chs[q] THEN put_nowait(qs[c], e).q ELSE qs[c]],
     raised |-> FALSE]

\* ConnectionManager.broadcast: the event is offered to every queue of the
\* project; gives the queues afterwards and whether an exception escaped
broadcast(chs, qs, p, e) ==
    IF p \notin DOMAIN chs THEN [qs |-> qs, raised |-> FALSE]
    ELSE [qs |-> [c \in Conns |-> IF c \in chs[p] THEN put_nowait(qs[c], e).q ELSE qs[c]],
          raised |-> \E c \in chs[p] : put_nowait(qs[c], e).exc \notin CaughtByBroadcast \cup {"none"}]

RECURSIVE broadcast_spans(_, _, _, _, _)
\* ingest_service: for span in spans: connection_manager.broadcast(project, event)
\* (the events first .. first+n-1 in order: the first half of the loop, then
\* the second half from the queues the first half left; an escaping exception
\* ends the loop)
broadcast_spans(chs, st, p, first, n) ==
    IF n = 0 \/ st.raised THEN st
    ELSE IF n = 1 THEN broadcast(chs, st.qs, p, first)
    ELSE LET h == n \div 2
             mid == broadcast_spans(chs, st, p, first, h)
         IN IF mid = st
            THEN broadcast_spans(chs, st, p, first + h, n - h)
            ELSE broadcast_spans(chs, mid, p, first + h, n - h)

\* ingest_service.ingest_spans, the fan-out of a batch of n spans: nothing is
\* built or broadcast when the project has no subscriber
IngestBroadcast(p, n) ==
    /\ stream.broadcasts < MaxBroadcasts
    /\ LET first == stream.sent + 1
           start == [qs |-> queue, raised |-> FALSE]
           done == IF connection_count(channels, p) > 0
                   THEN broadcast_spans(channels, start, p, first, n)
                   ELSE start
       IN /\ queue' = done.qs
          /\ stream' = [stream EXCEPT !.broadcasts = @ + 1, !.sent = @ + n,
                            !.last = [project |-> p, first |-> first, n |-> n, raised |-> done.raised]]
    /\ UNCHANGED <<channels, gen, alertVars, dispatchVars, extVars>>

(***************************************************************************)
(* Stream endpoint (routers/stream)                                        *)
(***************************************************************************)
FreshGen == [state |-> "unborn", project |-> None, out |-> None]

\* stream_events: the queue is registered and the response is returned around
\* a generator object whose body has not started
StreamConnect(c, p) ==
    /\ gen[c].state = "unborn"
    /\ channels' = connect(channels, p, c)
    /\ gen' = [gen EXCEPT ![c] = [state |-> "created", project |-> p, out |-> None]]
    /\ UNCHANGED <<queue, stream, alertVars, dispatchVars, extVars>>

\* the response starts iterating: the generator enters its try block and waits
\* on the queue
GenStart(c) ==
    /\ gen[c].state = "created"
    /\ gen' = [gen EXCEPT ![c].state = "waiting"]
    /\ UNCHANGED <<channels, queue, stream, alertVars, dispatchVars, extVars>>

\* wait_for(queue.get(), HEARTBEAT_INTERVAL_S): the oldest queued event, or a
\* heartbeat when the wait times out on an empty queue
GenYield(c) ==
    /\ gen[c].state = "waiting"
    /\ IF queue[c] # <<>>
       THEN /\ stream.reads < MaxReads
            /\ gen' = [gen EXCEPT ![c].state = "yielded", ![c].out = Head(queue[c])]
            /\ queue' = [queue EXCEPT ![c] = Tail(@)]
            /\ stream' = [stream EXCEPT !.reads = @ + 1]
       ELSE /\ gen' = [gen EXCEPT ![c].state = "yielded", ![c].out = "heartbeat"]
            /\ UNCHANGED <<queue, stream>>
    /\ UNCHANGED <<channels, alertVars, dispatchVars, extVars>>

\* the response asks for the next event
GenResume(c) ==
    /\ gen[c].state = "yielded"
    /\ gen' = [gen EXCEPT ![c].state = "waiting"]
    /\ UNCHANGED <<channels, queue, stream, alertVars, dispatchVars, extVars>>

\* the connection ends while the generator is suspended inside its try block
\* (close, cancellation or an error thrown in): the finally clause runs
GenClose(c) ==
    /\ gen[c].state \in {"waiting", "yielded"}
    /\ channels' = disconnect(channels, gen[c].project, c)
    /\ gen' = [gen EXCEPT ![c].state = "closed"]
    /\ UNCHANGED <<queue, stream, alertVars, dispatchVars, extVars>>

\* the connection ends before the response has asked the generator for its
\* first event: a generator that never started has no finally clause to run
GenAbandon(c) ==
    /\ gen[c].state = "created"
    /\ gen' = [gen EXCEPT ![c].state = "closed"]
    /\ UNCHANGED <<channels, queue, stream, alertVars, dispatchVars, extVars>>

(***************************************************************************)
(* Scheduler cycle with failures (alert_scheduler._evaluate_threshold_alerts) *)
(* One AsyncSession is opened per cycle and shared by every rule of the    *)
(* cycle; the per-rule handler logs the exception and goes on, it does not *)
(* roll the session back.                                                  *)
(***************************************************************************)
\* the rule's configuration as create_alert_event would snapshot it
RuleConfig(r) == [rule |-> r, threshold_value |-> RuleThreshold, edits |-> ruleCfg[r]]

\* getattr(event, "rule_snapshot", None) is not None
HasSnapshot(ev) == "rule_snapshot" \in DOMAIN ev

\* dispatch_alert_notification_async(event_id, ...): the hand-off of an event to
\* the dispatcher. No function of the program calls it.
dispatch_alert_notification_async(e) == handed \cup {e}

\* the rule's step ended in the handler of line 84: nothing was persisted
RuleStepFails(r) ==
    /\ lastOp' = [lastOp EXCEPT ![r] = "error"]
    /\ UNCHANGED <<events, cooldown>>

\* evaluate_alert_rule raises (the metrics query fails): no database operation
CycleEvalFails(r) ==
    /\ r \notin evaluated
    /\ evaluated' = evaluated \cup {r}
    /\ fault' = "evaluate"
    /\ RuleStepFails(r)
    /\ UNCHANGED <<session, lastValue>>
    /\ UNCHANGED <<cache, env, handed, ruleCfg, dispatchVars, streamVars, lifeVars, storeVars, ingestVars, laterVars>>

\* triggered result. f = "flush": the commit of fire_alert fails while flushing
\* (the session becomes inactive until rollback). On an inactive session every
\* select and commit raises.
CycleFire(r, v, f) ==
    /\ r \notin evaluated
    /\ evaluated' = evaluated \cup {r}
    /\ lastValue' = v
    /\ fault' = f
    /\ IF session = "inactive"
       THEN RuleStepFails(r) /\ UNCHANGED session
       ELSE IF f = "flush"
       THEN /\ is_in_cooldown(r) => LatestOpen(r) # {}
            /\ RuleStepFails(r)
            /\ session' = "inactive"
       ELSE fire_alert(r, v) /\ UNCHANGED session
    /\ UNCHANGED <<cache, env, handed, ruleCfg, dispatchVars, streamVars, lifeVars, storeVars, ingestVars, laterVars>>

\* non-triggered result; f as above
CycleResolve(r, f) ==
    /\ r \notin evaluated
    /\ evaluated' = evaluated \cup {r}
    /\ lastValue' = 0
    /\ fault' = f
    /\ IF session = "inactive"
       THEN RuleStepFails(r) /\ UNCHANGED session
       ELSE IF f = "flush"
       THEN /\ LatestOpen(r) # {}
            /\ RuleStepFails(r)
            /\ session' = "inactive"
       ELSE resolve_alert(r) /\ UNCHANGED session
    /\ UNCHANGED <<cache, env, handed, ruleCfg, dispatchVars, streamVars, lifeVars, storeVars, ingestVars, laterVars>>

\* the session is closed at the end of the cycle, the loop sleeps, the next
\* cycle opens a new session
CycleSleep ==
    /\ evaluated = Rules
    /\ cooldown' = [r \in Rules |-> IF cooldown[r] > EVALUATION_INTERVAL THEN cooldown[r] - EVALUATION_INTERVAL ELSE 0]
    /\ evaluated' = {}
    /\ session' = "ok"
    /\ UNCHANGED <<cache, events, lastOp, lastValue, env, fault, handed, ruleCfg, dispatchVars, streamVars, lifeVars, storeVars, ingestVars, laterVars>>

\* alert_service.update_alert_rule: the rule's threshold, duration or activation is edited
update_alert_rule(r) ==
    /\ ruleCfg[r] < MaxRuleEdits
    /\ ruleCfg' = [ruleCfg EXCEPT ![r] = @ + 1]
    /\ UNCHANGED <<alertVars, session, fault, handed, dispatchVars, streamVars, lifeVars, storeVars, ingestVars, laterVars>>

(***************************************************************************)
(* Scheduler lifecycle (alert_scheduler.start_scheduler / stop_scheduler)  *)
(***************************************************************************)
\* the unborn task with the smallest id: the one asyncio.create_task makes next
NextTask == CHOOSE t \in 1..MaxStarts : loops[t] = "unborn" /\ \A u \in 1..MaxStarts : loops[u] = "unborn" => t <= u

\* tasks whose loop can still begin an evaluation cycle
LiveLoops == {t \in 1..MaxStarts : loops[t] \in {"created", "evaluating", "sleeping"}}

\* while _scheduler_running: the loop goes on to a cycle or leaves
LoopCheck == IF sched.running THEN "evaluating" ELSE "done"

\* start_scheduler(): no await, so the whole call is one step
start_scheduler ==
    /\ \E t \in 1..MaxStarts : loops[t] = "unborn"
    /\ IF sched.running
       THEN UNCHANGED <<sched, loops>>
       ELSE /\ sched' = [running |-> TRUE, task |-> NextTask]
            /\ loops' = [loops EXCEPT ![NextTask] = "created"]
    /\ UNCHANGED <<stops, alertVars, dispatchVars, streamVars, cycleVars, storeVars, ingestVars, laterVars>>

\* stop_scheduler() up to its await: the flag is cleared and the task the
\* global names is cancelled; the call then waits for that task
StopBegin(c) ==
    /\ stops[c].pc = "idle"
    /\ IF ~sched.running
       THEN /\ stops' = [stops EXCEPT ![c].pc = "done"]
            /\ UNCHANGED <<sched, loops>>
       ELSE /\ sched' = [sched EXCEPT !.running = FALSE]
            /\ IF sched.task # 0
               THEN /\ loops' = [loops EXCEPT ![sched.task] = IF @ = "done" THEN "done" ELSE "cancelling"]
                    /\ stops' = [stops EXCEPT ![c] = [pc |-> "awaiting", awaited |-> sched.task]]
               ELSE /\ stops' = [stops EXCEPT ![c].pc = "done"]
                    /\ UNCHANGED loops
    /\ UNCHANGED <<alertVars, dispatchVars, streamVars, cycleVars, storeVars, ingestVars, laterVars>>

\* stop_scheduler() after its await: the awaited task has ended;
\* _scheduler_task = None, whatever the global names by now
StopResume(c) ==
    /\ stops[c].pc = "awaiting"
    /\ loops[stops[c].awaited] = "done"
    /\ sched' = [sched EXCEPT !.task = 0]
    /\ stops' = [stops EXCEPT ![c].pc = "done"]
    /\ UNCHANGED <<loops, alertVars, dispatchVars, streamVars, cycleVars, storeVars, ingestVars, laterVars>>

\* the task runs for the first time and tests the flag
LoopStart(t) ==
    /\ loops[t] = "created"
    /\ loops' = [loops EXCEPT ![t] = LoopCheck]
    /\ UNCHANGED <<sched, stops, alertVars, dispatchVars, streamVars, cycleVars, storeVars, ingestVars, laterVars>>

\* _evaluate_threshold_alerts() returns; the loop starts asyncio.sleep(EVALUATION_INTERVAL)
LoopEvaluated(t) ==
    /\ loops[t] = "evaluating"
    /\ loops' = [loops EXCEPT ![t] = "sleeping"]
    /\ UNCHANGED <<sched, stops, alertVars, dispatchVars, streamVars, cycleVars, storeVars, ingestVars, laterVars>>

\* the sleep ends and the loop tests the flag again
LoopWake(t) ==
    /\ loops[t] = "sleeping"
    /\ loops' = [loops EXCEPT ![t] = LoopCheck]
    /\ UNCHANGED <<sched, stops, alertVars, dispatchVars, streamVars, cycleVars, storeVars, ingestVars, laterVars>>

\* CancelledError is delivered at the task's await (or before its first step):
\* neither except Exception catches it, the task ends
LoopCancelled(t) ==
    /\ loops[t] = "cancelling"
    /\ loops' = [loops EXCEPT ![t] = "done"]
    /\ UNCHANGED <<sched, stops, alertVars, dispatchVars, streamVars, cycleVars, storeVars, ingestVars, laterVars>>

(***************************************************************************)
(* Counter store (alert_counters over db/redis)                            *)
(* The cache is "up", "down" (every operation errors) or "uninit" (the     *)
(* pool was never initialised or has been closed: get_redis raises).       *)
(***************************************************************************)
\* the buckets of the current minute and of the minute before it
EmptyBuckets == [requests |-> 0, errors |-> 0, requests_prev |-> 0, errors_prev |-> 0]

CounterOps ==
    {"increment_error_count", "increment_request_count", "get_error_count", "get_request_count",
     "get_error_rate", "is_in_cooldown", "set_cooldown", "clear_cooldown", "get_cooldown_remaining"}

\* db/redis.get_redis: raises RuntimeError when the pool is None
get_redis(st) == [raised |-> st = "uninit"]

\* sum of the window's buckets (mget over the minute keys)
get_request_count(p) == counters[p].requests + counters[p].requests_prev

get_error_count(p) == counters[p].errors + counters[p].errors_prev

\* (error_count / request_count) * 100, as a whole percentage
get_error_rate(p) == IF get_request_count(p) = 0 THEN 0 ELSE (get_error_count(p) * 100) \div get_request_count(p)

\* pipeline incr + expire on the current minute's key
increment_request_count(p) == [counters EXCEPT ![p].requests = @ + 1]

increment_error_count(p) == [counters EXCEPT ![p].errors = @ + 1]

\* what each function returns from its except block
Degraded(op) ==
    IF op \in {"is_in_cooldown", "set_cooldown", "clear_cooldown"} THEN FALSE ELSE 0

\* value returned with the cache up
Returned(op, p, r) ==
    CASE op = "increment_request_count" -> counters[p].requests + 1
      [] op = "increment_error_count" -> counters[p].errors + 1
      [] op = "get_request_count" -> get_request_count(p)
      [] op = "get_error_count" -> get_error_count(p)
      [] op = "get_error_rate" -> get_error_rate(p)
      [] op = "is_in_cooldown" -> TokenPresent(r)
      [] op = "get_cooldown_remaining" -> cooldown[r]
      [] OTHER -> TRUE

CountersAfter(op, p) ==
    CASE op = "increment_request_count" -> increment_request_count(p)
      [] op = "increment_error_count" -> increment_error_count(p)
      [] OTHER -> counters

CooldownAfter(op, r) ==
    CASE op = "set_cooldown" -> [cooldown EXCEPT ![r] = DEFAULT_COOLDOWN_SECONDS]
      [] op = "clear_cooldown" -> [cooldown EXCEPT ![r] = 0]
      [] OTHER -> cooldown

\* one call of a counter-store function: client = get_redis() stands before the
\* try block, the operation on the client inside it
CounterStoreCall(op, p, r) ==
    IF get_redis(cache).raised
    THEN [raised |-> TRUE, value |-> None, counters |-> counters, cooldown |-> cooldown]
    ELSE IF cache # "up"
    THEN [raised |-> FALSE, value |-> Degraded(op), counters |-> counters, cooldown |-> cooldown]
    ELSE [raised |-> FALSE, value |-> Returned(op, p, r),
          counters |-> CountersAfter(op, p), cooldown |-> CooldownAfter(op, r)]

\* a caller (evaluator, scheduler, ingestion task) calls one of the functions
StoreCall(op, p, r) ==
    /\ op = "increment_request_count" => counters[p].requests < MaxBucket
    /\ op = "increment_error_count" => counters[p].errors < counters[p].requests
    /\ LET res == CounterStoreCall(op, p, r)
       IN /\ counters' = res.counters
          /\ cooldown' = res.cooldown
          /\ lastCall' = [op |-> op, cache |-> cache, raised |-> res.raised, value |-> res.value,
                          changed |-> res.counters # counters \/ res.cooldown # cooldown]
    /\ UNCHANGED <<cache, events, evaluated, lastOp, lastValue, env, dispatchVars, streamVars, cycleVars, lifeVars, ingestVars, laterVars>>

\* init_redis / close_redis, or an outage of the server beginning or ending
CacheSwitch(s) ==
    /\ s # cache
    /\ cache' = s
    /\ UNCHANGED <<cooldown, events, evaluated, lastOp, lastValue, env, dispatchVars, streamVars, extVars>>

(***************************************************************************)
(* Ingestion (ingest_service.ingest_traces, routers/ingest)                *)
(***************************************************************************)
Calls == {"k1", "k2"}

SPANS_COLUMNS ==
    <<"org_id", "project_id", "trace_id", "span_id", "parent_span_id", "span_name", "span_type",
      "service_name", "framework", "environment", "kind", "start_time", "end_time", "duration_ms",
      "status_code", "status_message", "http_method", "http_route", "http_status_code",
      "request_body", "response_body", "request_headers", "response_headers", "attributes",
      "row_size_bytes">>

ColumnSet == {SPANS_COLUMNS[j] : j \in 1..Len(SPANS_COLUMNS)}

\* OTLP spans by what ingestion reads of them: the status code and the string
\* of the http.response.status_code attribute. "superscript-2" stands for a one
\* character string made of a digit that is no decimal digit (U+00B2)
OkSpan == [status |-> "OK", http_status |-> "200"]

ErrorSpan == [status |-> "ERROR", http_status |-> ""]

OddSpan == [status |-> "OK", http_status |-> "superscript-2"]

SpanLists == {<<>>, <<ErrorSpan>>, <<OkSpan, ErrorSpan>>, <<OddSpan>>}

\* request bodies: a malformed protobuf, or a decodable one with its spans
Payloads == {[decodable |-> FALSE, spans |-> <<>>]} \cup {[decodable |-> TRUE, spans |-> sl] : sl \in SpanLists}

SpanIds == <<"s1", "s2">>

\* str.isdigit: true of a non-empty string of characters with the Digit property
isdigit(str) == str \in {"200", "superscript-2"}

\* int(str): raises ValueError unless the string is a decimal literal
int(str) ==
    IF str = "200"
    THEN [raised |-> FALSE, value |-> 200]
    ELSE [raised |-> TRUE, value |-> 0]

\* int(http_status_str) if http_status_str.isdigit() else 0
http_status_code(str) == IF isdigit(str) THEN int(str) ELSE [raised |-> FALSE, value |-> 0]

\* utils/otlp.extract_spans: one dict per span, keyed by the column names
span_row(p, i, sp) ==
    [c \in ColumnSet |->
        CASE c = "status_code" -> sp.status
          [] c = "http_status_code" -> http_status_code(sp.http_status).value
          [] c = "project_id" -> p
          [] c = "span_id" -> SpanIds[i]
          [] OTHER -> c]

extract_spans(payload, p) == [i \in 1..Len(payload.spans) |-> span_row(p, i, payload.spans[i])]

\* the conversion of some span of the payload raises
extract_raises(payload) == \E i \in 1..Len(payload.spans) : http_status_code(payload.spans[i].http_status).raised

\* row = [span[col] for col in SPANS_COLUMNS]
Row(span) == [j \in 1..Len(SPANS_COLUMNS) |-> span[SPANS_COLUMNS[j]]]

error_count_all(spans) == Len(spans)

\* sum(1 for span in spans if span.get("status_code") == "ERROR")
error_count(spans) == Cardinality({i \in 1..Len(spans) : spans[i]["status_code"] = "ERROR"})

insert_never_raises(outcome) == FALSE

\* await asyncio.to_thread(client.insert, ...): a failed write raises out of ingest_traces
insert_raises(outcome) == outcome # "ok"

IngestOutcomeAwaitingCounters(n, st) ==
    IF get_redis(st).raised
    THEN [pc |-> "failed", result |-> None, error |-> "RuntimeError"]
    ELSE [pc |-> "returned", result |-> n, error |-> "none"]

\* lines 76-101 for n spans with the cache in state st: the counter update is
\* handed to a task that is not awaited, so the call returns len(spans)
IngestOutcome(n, st) == [pc |-> "returned", result |-> n, error |-> "none"]

IdleCall ==
    [pc |-> "idle", project |-> None, payload |-> [decodable |-> FALSE, spans |-> <<>>],
     client |-> None, insert |-> None, result |-> None, error |-> "none", cacheAt |-> None]

IdleCounterTask ==
    [pc |-> "none", project |-> None, requests_left |-> 0, errors_left |-> 0,
     requests_done |-> 0, errors_done |-> 0, clean |-> TRUE]

IngestBeginWithoutEmptyCheck(k, p, payload, client) ==
    /\ calls[k].pc = "idle"
    /\ LET c == [calls[k] EXCEPT !.project = p, !.payload = payload, !.client = client]
       IN calls' = [calls EXCEPT ![k] =
            IF ~payload.decodable
            THEN [c EXCEPT !.pc = "failed", !.error = "ValueError"]
            ELSE IF extract_raises(payload)
            THEN [c EXCEPT !.pc = "failed", !.error = "ValueError"]
            ELSE IF client = "none"
            THEN [c EXCEPT !.pc = "failed", !.error = "RuntimeError"]
            ELSE [c EXCEPT !.pc = "inserting"]]
    /\ UNCHANGED <<ctasks, store, alertVars, dispatchVars, streamVars, cycleVars, lifeVars, storeVars, laterVars>>

\* ingest_traces up to the await of the insert. client is "ready", or "none"
\* when init_clickhouse could not connect (get_clickhouse_client raises)
IngestBegin(k, p, payload, client) ==
    /\ calls[k].pc = "idle"
    /\ LET c == [calls[k] EXCEPT !.project = p, !.payload = payload, !.client = client]
       IN calls' = [calls EXCEPT ![k] =
            IF ~payload.decodable
            THEN [c EXCEPT !.pc = "failed", !.error = "ValueError"]
            ELSE IF extract_raises(payload)
            THEN [c EXCEPT !.pc = "failed", !.error = "ValueError"]
            ELSE IF Len(extract_spans(payload, p)) = 0
            THEN [c EXCEPT !.pc = "returned", !.result = 0]
            ELSE IF client = "none"
            THEN [c EXCEPT !.pc = "failed", !.error = "RuntimeError"]
            ELSE [c EXCEPT !.pc = "inserting"]]
    /\ UNCHANGED <<ctasks, store, alertVars, dispatchVars, streamVars, cycleVars, lifeVars, storeVars, laterVars>>

\* the insert ends; on success the counter task is created, the spans are
\* broadcast to the project's subscribers and the span count is returned
IngestInsertDone(k, outcome) ==
    /\ calls[k].pc = "inserting"
    /\ LET proj == calls[k].project
           spans == extract_spans(calls[k].payload, proj)
           n == Len(spans)
           out == IngestOutcome(n, cache)
           first == stream.sent + 1
           start == [qs |-> queue, raised |-> FALSE]
           fanout == connection_count(channels, proj) > 0
           done == IF fanout THEN broadcast_spans(channels, start, proj, first, n) ELSE start
       IN /\ store' = [store EXCEPT ![k] =
                IF outcome = "ok"
                THEN Append(@, [table |-> "spans", rows |-> [i \in 1..n |-> Row(spans[i])],
                                column_names |-> SPANS_COLUMNS])
                ELSE @]
          /\ IF insert_raises(outcome)
             THEN /\ calls' = [calls EXCEPT ![k].pc = "failed", ![k].insert = outcome, ![k].error = "StoreError"]
                  /\ UNCHANGED <<ctasks, queue, stream>>
             ELSE /\ calls' = [calls EXCEPT ![k].pc = out.pc, ![k].insert = outcome, ![k].result = out.result,
                                            ![k].error = out.error, ![k].cacheAt = cache]
                  /\ ctasks' = [ctasks EXCEPT ![k] =
                        [pc |-> "running", project |-> proj, requests_left |-> n,
                         errors_left |-> error_count(spans), requests_done |-> 0, errors_done |-> 0,
                         clean |-> TRUE]]
                  /\ queue' = done.qs
                  /\ stream' = IF fanout
                               THEN [stream EXCEPT !.sent = @ + n,
                                        !.last = [project |-> proj, first |-> first, n |-> n, raised |-> done.raised]]
                               ELSE stream
    /\ UNCHANGED <<channels, gen, alertVars, dispatchVars, cycleVars, lifeVars, storeVars, laterVars>>

\* _update_alert_counters: the next increment of the task. An increment that
\* raises (no client) ends the task in its except block; one that fails inside
\* alert_counters returns 0 and the loop goes on
CounterStep(k) ==
    /\ ctasks[k].pc = "running"
    /\ LET t == ctasks[k]
           op == IF t.requests_left > 0 THEN "increment_request_count" ELSE "increment_error_count"
           res == CounterStoreCall(op, t.project, CHOOSE r \in Rules : TRUE)
           applied == IF res.counters # counters THEN 1 ELSE 0
           u == IF op = "increment_request_count"
                THEN [t EXCEPT !.requests_left = @ - 1, !.requests_done = @ + applied]
                ELSE [t EXCEPT !.errors_left = @ - 1, !.errors_done = @ + applied]
       IN /\ counters' = res.counters
          /\ ctasks' = [ctasks EXCEPT ![k] =
                IF res.raised
                THEN [t EXCEPT !.pc = "done", !.clean = FALSE]
                ELSE [u EXCEPT !.pc = IF u.requests_left + u.errors_left = 0 THEN "done" ELSE "running",
                               !.clean = t.clean /\ cache = "up"]]
    /\ UNCHANGED <<calls, store, lastCall, alertVars, dispatchVars, streamVars, cycleVars, lifeVars, laterVars>>

\* the request is over and its task has ended: the slot stands for a later request
CallReset(k) ==
    /\ calls[k].pc \in {"returned", "failed"}
    /\ ctasks[k].pc \in {"none", "done"}
    /\ calls' = [calls EXCEPT ![k] = IdleCall]
    /\ ctasks' = [ctasks EXCEPT ![k] = IdleCounterTask]
    /\ store' = [store EXCEPT ![k] = <<>>]
    /\ UNCHANGED <<alertVars, dispatchVars, streamVars, cycleVars, lifeVars, storeVars, laterVars>>

\* a minute passes: the current buckets become the previous ones, older ones
\* leave the evaluation window
MinuteTick ==
    /\ counters' = [p \in Projects |->
            [requests |-> 0, errors |-> 0,
             requests_prev |-> counters[p].requests, errors_prev |-> counters[p].errors]]
    /\ \E p \in Projects : counters'[p] # counters[p]
    /\ UNCHANGED <<lastCall, ingestVars, alertVars, dispatchVars, streamVars, cycleVars, lifeVars, laterVars>>

\* increments of project p still to come from running tasks
PendingRequests(p) == Cardinality({<<k, i>> \in Calls \X (1..2) : ctasks[k].pc = "running" /\ ctasks[k].project = p /\ i <= ctasks[k].requests_left})

\* the minute bucket of project p has room for the n spans of one more batch
BucketRoom(p, n) ==
    /\ counters[p].requests + PendingRequests(p) + n <= MaxBucket
    /\ \A k \in Calls : calls[k].pc = "inserting" => calls[k].project # p

(***************************************************************************)
(* Per-minute counter keys (alert_counters), for one project: the key of   *)
(* a metric and minute is created by the first INCR of that minute, every  *)
(* increment resets its TTL to COUNTER_TTL, and the key is gone            *)
(* COUNTER_TTL seconds after its last increment.                           *)
(***************************************************************************)
Metrics == {"requests", "errors"}

Minutes == 0..MaxMinute

\* minutes after which a key expires, counted from the minute it belongs to;
\* _get_minute_key floors the time to 60 s
TtlMinutes == COUNTER_TTL \div 60

\* duration_seconds of a rule: the column is an unconstrained integer
Durations == {30, 300, 660}

\* window_minutes = max(1, duration_seconds // 60)
window_minutes(d) == IF d \div 60 >= 1 THEN d \div 60 ELSE 1

\* the batches at work: request_count, error_count
BatchShapes == {<<1, 0>>, <<1, 1>>, <<2, 1>>, <<2, 2>>}

RECURSIVE SumMinutes(_, _, _)
\* sum of f[minute - i] for i in range(n), a minute before the run counting 0
SumMinutes(f, minute, n) ==
    IF n = 0 \/ minute < 0 THEN 0
    ELSE f[minute] + SumMinutes(f, minute - 1, n - 1)

\* client.mget(keys) then sum(int(v) for v in values if v is not None)
GetCount(metric, n) == SumMinutes(buckets[metric], now, n)

\* get_error_rate, lines 157-160: 0.0 without requests, else
\* (error_count / request_count) * 100, as the fraction num / den
ErrorRate(e, r) ==
    IF r = 0
    THEN [num |-> 0, den |-> 1]
    ELSE [num |-> e * 100, den |-> r]

\* _update_alert_counters starts for a batch of n spans, e of them errors
BatchStart(n, e) ==
    /\ batch.pc = "idle"
    /\ batch.attempts + n + e <= MaxIncrements
    /\ batch' = [batch EXCEPT !.pc = "running", !.requests_left = n, !.errors_left = e]
    /\ UNCHANGED <<now, buckets, made, reading>>
    /\ UNCHANGED <<alertVars, dispatchVars, streamVars, priorVars, evalVars, httpVars, beatVars, regVars>>

\* the next increment of the batch, on the key of the current minute; ok is
\* FALSE when the pipeline fails (increment_* returns 0 and the loop goes on)
BatchIncrement(ok) ==
    /\ batch.pc = "running"
    /\ LET metric == IF batch.requests_left > 0 THEN "requests" ELSE "errors"
           left == batch.requests_left + batch.errors_left - 1
       IN /\ batch' = [batch EXCEPT
                !.pc = IF left = 0 THEN "idle" ELSE "running",
                !.requests_left = IF metric = "requests" THEN @ - 1 ELSE @,
                !.errors_left = IF metric = "errors" THEN @ - 1 ELSE @,
                !.attempts = @ + 1]
          /\ IF ok
             THEN /\ buckets' = [buckets EXCEPT ![metric][now] = @ + 1]
                  /\ made' = [made EXCEPT ![metric][now] = @ + 1]
             ELSE UNCHANGED <<buckets, made>>
    /\ UNCHANGED <<now, reading>>
    /\ UNCHANGED <<alertVars, dispatchVars, streamVars, priorVars, evalVars, httpVars, beatVars, regVars>>

\* a key whose TTL runs out during the current minute expires
KeyExpires(metric, b) ==
    /\ b + TtlMinutes = now
    /\ buckets[metric][b] > 0
    /\ buckets' = [buckets EXCEPT ![metric][b] = 0]
    /\ UNCHANGED <<now, made, batch, reading>>
    /\ UNCHANGED <<alertVars, dispatchVars, streamVars, priorVars, evalVars, httpVars, beatVars, regVars>>

\* the minute ends: every key whose TTL ran out during it is gone
MinuteRollover ==
    /\ now < MaxMinute
    /\ now' = now + 1
    /\ buckets' = [m \in Metrics |-> [b \in Minutes |-> IF b + TtlMinutes <= now THEN 0 ELSE buckets[m][b]]]
    /\ UNCHANGED <<made, batch, reading>>
    /\ UNCHANGED <<alertVars, dispatchVars, streamVars, priorVars, evalVars, httpVars, beatVars, regVars>>

\* get_request_count / get_error_count for a rule of duration d; ok is FALSE
\* when mget fails (the function returns 0)
ReadCount(metric, d, ok) ==
    /\ reading' = [op |-> "get_count", metric |-> metric, window |-> window_minutes(d), minute |-> now,
                   ok |-> ok, value |-> IF ok THEN GetCount(metric, window_minutes(d)) ELSE 0]
    /\ UNCHANGED <<now, buckets, made, batch>>
    /\ UNCHANGED <<alertVars, dispatchVars, streamVars, priorVars, evalVars, httpVars, beatVars, regVars>>

\* get_error_rate, line 154: error_count = await get_error_count(...)
RateReadErrors(d, ok) ==
    /\ reading' = [op |-> "get_error_rate", pc |-> "errors_read", window |-> window_minutes(d),
                   error_count |-> IF ok THEN GetCount("errors", window_minutes(d)) ELSE 0]
    /\ UNCHANGED <<now, buckets, made, batch>>
    /\ UNCHANGED <<alertVars, dispatchVars, streamVars, priorVars, evalVars, httpVars, beatVars, regVars>>

\* get_error_rate, lines 155-160: the request count is read with the minute
\* key of that moment and the rate is returned
RateReadRequests(ok) ==
    /\ reading.op = "get_error_rate"
    /\ reading.pc = "errors_read"
    /\ LET request_count == IF ok THEN GetCount("requests", reading.window) ELSE 0
       IN reading' = [op |-> "get_error_rate", pc |-> "returned", window |-> reading.window,
                      error_count |-> reading.error_count, request_count |-> request_count,
                      value |-> ErrorRate(reading.error_count, request_count)]
    /\ UNCHANGED <<now, buckets, made, batch>>
    /\ UNCHANGED <<alertVars, dispatchVars, streamVars, priorVars, evalVars, httpVars, beatVars, regVars>>

(***************************************************************************)
(* Condition evaluation (the evaluate functions of alert_evaluator).       *)
(* Measured values are exact fractions num / den with den > 0; thresholds  *)
(* are whole numbers.                                                      *)
(***************************************************************************)
\* threshold_value of a rule: the column is an unconstrained float
Thresholds == {-50, 0, 50, 100}

\* counts read from the counters
Counts == 0..3

\* p95 latencies in ms, and request volumes, that a metrics query returns
Measures == {0, 100, 150, 200}

\* what the ClickHouse query of a percentage evaluation gives: it fails, it
\* has no row, or it has one row of two values each of which may be NULL
QueryResults ==
    {[failed |-> TRUE, rows |-> 0, current_null |-> TRUE, current |-> 0, previous_null |-> TRUE, previous |-> 0],
     [failed |-> FALSE, rows |-> 0, current_null |-> TRUE, current |-> 0, previous_null |-> TRUE, previous |-> 0]}
    \cup {[failed |-> FALSE, rows |-> 1, current_null |-> cn, current |-> IF cn THEN 0 ELSE c,
           previous_null |-> pn, previous |-> IF pn THEN 0 ELSE p] :
            cn \in BOOLEAN, c \in Measures, pn \in BOOLEAN, p \in Measures}

\* float(n) of a small integer
float(n) == [num |-> n, den |-> 1]

\* rows[0][0] if rows[0][0] is not None else 0.0; 0.0 without rows or on failure
CurrentOf(q) == IF q.failed \/ q.rows = 0 \/ q.current_null THEN 0 ELSE q.current

PreviousOf(q) == IF q.failed \/ q.rows = 0 \/ q.previous_null THEN 0 ELSE q.previous

\* ((current - previous) / previous) * 100 if previous > 0 else 0.0
PctChange(current, previous) ==
    IF previous > 0
    THEN [num |-> (current - previous) * 100, den |-> previous]
    ELSE [num |-> 0, den |-> 1]

\* abs(x) of a fraction
abs(x) == [num |-> IF x.num < 0 THEN 0 - x.num ELSE x.num, den |-> x.den]

\* x >= t, x > t and x = t for a fraction x and a whole number t
AtLeast(x, t) == x.num >= t * x.den

Above(x, t) == x.num > t * x.den

EvaluateHighErrorRateInclusive(rate, threshold) ==
    [is_triggered |-> AtLeast(rate, threshold), metric_value |-> rate, threshold_value |-> threshold]

\* evaluate_high_error_rate on the rate that get_error_rate returned
EvaluateHighErrorRate(rate, threshold) ==
    [is_triggered |-> Above(rate, threshold), metric_value |-> rate, threshold_value |-> threshold]

\* evaluate_service_down on the count that get_request_count returned
EvaluateServiceDown(request_count, threshold) ==
    [is_triggered |-> request_count = threshold, metric_value |-> float(request_count), threshold_value |-> threshold]

\* evaluate_latency_spike on the result of its query
EvaluateLatencySpike(q, threshold) ==
    LET pct_increase == PctChange(CurrentOf(q), PreviousOf(q))
    IN [is_triggered |-> AtLeast(pct_increase, threshold), metric_value |-> pct_increase, threshold_value |-> threshold]

\* _evaluate_volume_change on the result of its query
EvaluateVolumeChange(q, threshold, is_drop) ==
    LET pct_change == PctChange(CurrentOf(q), PreviousOf(q))
    IN IF is_drop
       THEN [is_triggered |-> pct_change.num < 0 /\ AtLeast(abs(pct_change), threshold),
             metric_value |-> IF pct_change.num < 0 THEN abs(pct_change) ELSE float(0),
             threshold_value |-> threshold]
       ELSE [is_triggered |-> pct_change.num > 0 /\ AtLeast(pct_change, threshold),
             metric_value |-> IF pct_change.num > 0 THEN pct_change ELSE float(0),
             threshold_value |-> threshold]

\* a critical rule is evaluated on counts e (errors) and r (requests)
EvalCritical(preset, e, r, t) ==
    /\ evalCase' = [op |-> preset, error_count |-> e, request_count |-> r, threshold |-> t,
                    result |-> IF preset = "high_error_rate"
                               THEN EvaluateHighErrorRate(ErrorRate(e, r), t)
                               ELSE EvaluateServiceDown(r, t)]
    /\ UNCHANGED <<alertVars, dispatchVars, streamVars, priorVars, windowVars, httpVars, beatVars, regVars>>

\* a percentage rule is evaluated on the outcome q of its query
EvalPercentage(preset, q, t) ==
    /\ evalCase' = [op |-> preset, query |-> q, threshold |-> t,
                    result |-> CASE preset = "latency_spike" -> EvaluateLatencySpike(q, t)
                                 [] preset = "traffic_drop" -> EvaluateVolumeChange(q, t, TRUE)
                                 [] OTHER -> EvaluateVolumeChange(q, t, FALSE)]
    /\ UNCHANGED <<alertVars, dispatchVars, streamVars, priorVars, windowVars, httpVars, beatVars, regVars>>

\* the threshold presets, evaluated from the metrics_1m aggregations
THRESHOLD_ALERTS == {"slow_responses", "latency_spike", "traffic_drop", "traffic_surge"}

\* the query raised (or get_clickhouse_client did)
FailedQuery ==
    [failed |-> TRUE, rows |-> 0, current_null |-> TRUE, current |-> 0, previous_null |-> TRUE, previous |-> 0]

\* evaluate_slow_responses on the result of its query: p95 > threshold
EvaluateSlowResponses(q, threshold) ==
    LET p95 == IF q.failed \/ q.rows = 0 \/ q.current_null THEN 0 ELSE q.current
    IN [is_triggered |-> p95 > threshold, metric_value |-> [num |-> p95, den |-> 1], threshold_value |-> threshold]

\* evaluate_alert_rule for a threshold preset
evaluate_alert_rule(preset, q, threshold) ==
    CASE preset = "slow_responses" -> EvaluateSlowResponses(q, threshold)
      [] preset = "latency_spike" -> EvaluateLatencySpike(q, threshold)
      [] preset = "traffic_drop" -> EvaluateVolumeChange(q, threshold, TRUE)
      [] preset = "traffic_surge" -> EvaluateVolumeChange(q, threshold, FALSE)
      [] OTHER -> [is_triggered |-> FALSE, metric_value |-> [num |-> 0, den |-> 1], threshold_value |-> threshold]

\* a rule whose metrics query fails inside its evaluator: the except block of
\* the evaluator swallows the error, the result is computed from zeros, and
\* the scheduler goes on to fire_alert or resolve_alert with it
CycleQueryFails(r, preset) ==
    /\ r \notin evaluated
    /\ evaluated' = evaluated \cup {r}
    /\ fault' = "query"
    /\ LET result == evaluate_alert_rule(preset, FailedQuery, RuleThreshold)
           value == result.metric_value.num \div result.metric_value.den
       IN /\ lastValue' = value
          /\ IF session = "inactive"
             THEN RuleStepFails(r)
             ELSE IF result.is_triggered
             THEN fire_alert(r, value)
             ELSE resolve_alert(r)
    /\ UNCHANGED session
    /\ UNCHANGED <<cache, env, handed, ruleCfg, dispatchVars, streamVars, lifeVars, storeVars, ingestVars, laterVars>>

(***************************************************************************)
(* Read loop of a connection (routers/stream._event_generator)             *)
(* wait_for(queue.get(), HEARTBEAT_INTERVAL_S) is not one step of the event *)
(* loop: the timer callback cancels the pending get, and the generator     *)
(* resumes with the TimeoutError in a later step of the loop.  A broadcast *)
(* that runs in between, or in the loop iteration in which the timer is    *)
(* due, leaves its event in the queue.                                     *)
(***************************************************************************)
\* the wait a generator starts each time it enters the loop body
ArmedWait == [pc |-> "armed", waited |-> 0, kind |-> "none", beats |-> 0]

Min(a, b) == IF a <= b THEN a ELSE b

\* await asyncio.wait_for(queue.get(), ...) returns the oldest queued event;
\* yield event
WaitGet(c) ==
    /\ gen[c].state = "waiting"
    /\ beat[c].pc = "armed"
    /\ queue[c] # <<>>
    /\ stream.reads < MaxReads
    /\ gen' = [gen EXCEPT ![c].state = "yielded", ![c].out = Head(queue[c])]
    /\ queue' = [queue EXCEPT ![c] = Tail(@)]
    /\ stream' = [stream EXCEPT !.reads = @ + 1]
    /\ beat' = [beat EXCEPT ![c] = [ArmedWait EXCEPT !.kind = "span", !.beats = beat[c].beats]]
    /\ UNCHANGED <<channels, alertVars, dispatchVars, priorVars, windowVars, evalVars, httpVars, regVars>>

\* the timer of wait_for fires after HEARTBEAT_INTERVAL_S: the pending get is
\* cancelled, the generator is scheduled to resume with the timeout
WaitTimeout(c) ==
    /\ gen[c].state = "waiting"
    /\ beat[c].pc = "armed"
    /\ beat[c].waited = HEARTBEAT_INTERVAL_S
    /\ beat[c].beats < MaxBeats
    /\ beat' = [beat EXCEPT ![c].pc = "timed_out"]
    /\ UNCHANGED <<streamVars, alertVars, dispatchVars, priorVars, windowVars, evalVars, httpVars, regVars>>

\* except asyncio.TimeoutError: yield the heartbeat event
WaitHeartbeat(c) ==
    /\ gen[c].state = "waiting"
    /\ beat[c].pc = "timed_out"
    /\ gen' = [gen EXCEPT ![c].state = "yielded", ![c].out = "heartbeat"]
    /\ beat' = [beat EXCEPT ![c] = [ArmedWait EXCEPT !.kind = "heartbeat", !.beats = beat[c].beats + 1]]
    /\ UNCHANGED <<channels, queue, stream, alertVars, dispatchVars, priorVars, windowVars, evalVars, httpVars, regVars>>

\* a wait that the event loop has to serve before time can pass: an event is
\* queued for it, its timer is due, or its timeout is being delivered
Urgent(c) ==
    /\ gen[c].state = "waiting"
    /\ \/ beat[c].pc = "timed_out"
       \/ queue[c] # <<>>
       \/ beat[c].waited = HEARTBEAT_INTERVAL_S

\* time passes for every pending wait, at most up to the moment its timer is due
ClockTick ==
    /\ \E c \in Conns : gen[c].state = "waiting"
    /\ \A c \in Conns : ~Urgent(c)
    /\ beat' = [c \in Conns |->
                  IF gen[c].state = "waiting"
                  THEN [beat[c] EXCEPT !.waited = Min(@ + BeatStep, HEARTBEAT_INTERVAL_S)]
                  ELSE beat[c]]
    /\ UNCHANGED <<streamVars, alertVars, dispatchVars, priorVars, windowVars, evalVars, httpVars, regVars>>

(***************************************************************************)
(* Ingestion endpoint (routers/ingest.receive_traces): POST /v1/traces     *)
(* One request per call slot; the handler runs get_api_key_project as a    *)
(* dependency, reads the body, awaits ingest_traces and maps its outcome   *)
(* to the response.                                                        *)
(***************************************************************************)
ApiKeys == {"missing", "invalid", "valid"}

\* request bodies: no bytes at all, or the bytes of a payload
Bodies ==
    {[empty |-> TRUE, payload |-> [decodable |-> FALSE, spans |-> <<>>]]}
        \cup {[empty |-> FALSE, payload |-> pl] : pl \in Payloads}

\* Depends(get_api_key_project): the project the key is scoped to, or
\* UnauthorizedError for a key that is absent or matches no active key
get_api_key_project(key) ==
    IF key = "valid"
    THEN [raised |-> FALSE, project |-> BusyProject]
    ELSE [raised |-> TRUE, project |-> None]

NoResponse == [status |-> 0, code |-> "none", message |-> "none", content |-> "none"]

\* main.unauthorized_handler
unauthorized_handler == [status |-> 401, code |-> "UNAUTHORIZED", message |-> "unauthorized", content |-> "envelope"]

\* str(e) of the ValueError ingest_traces raised for the payload
str_e(payload) ==
    IF ~payload.decodable
    THEN "Malformed OTLP protobuf payload"
    ELSE "invalid literal for int() with base 10"

receive_traces_response_with_count(call) ==
    IF call.pc = "returned"
    THEN [status |-> 200, code |-> "none", message |-> "none", content |-> "count"]
    ELSE IF call.error = "ValueError"
    THEN [status |-> 400, code |-> "BAD_REQUEST", message |-> str_e(call.payload), content |-> "envelope"]
    ELSE [status |-> 500, code |-> "none", message |-> "none", content |-> "Internal Server Error"]

\* the try block around ingest_traces: ValueError becomes a 400 with str(e),
\* a return becomes Response(status_code=200); any other exception leaves the
\* handler and the server answers 500
receive_traces_response(call) ==
    IF call.pc = "returned"
    THEN [status |-> 200, code |-> "none", message |-> "none", content |-> "empty"]
    ELSE IF call.error = "ValueError"
    THEN [status |-> 400, code |-> "BAD_REQUEST", message |-> str_e(call.payload), content |-> "envelope"]
    ELSE [status |-> 500, code |-> "none", message |-> "none", content |-> "Internal Server Error"]

IdleRequest == [pc |-> "idle", key |-> "missing", body |-> [empty |-> TRUE, payload |-> [decodable |-> FALSE, spans |-> <<>>]],
                project |-> None, response |-> NoResponse]

\* a request arrives: the dependency, then raw_body = await request.body()
\* and the empty-body check
ReceiveTraces(k, key, body) ==
    /\ http[k].pc = "idle"
    /\ calls[k].pc = "idle"
    /\ LET auth == get_api_key_project(key)
           r == [http[k] EXCEPT !.key = key, !.body = body, !.project = auth.project]
       IN http' = [http EXCEPT ![k] =
            IF auth.raised
            THEN [r EXCEPT !.pc = "responded", !.response = unauthorized_handler]
            ELSE IF body.empty
            THEN [r EXCEPT !.pc = "responded",
                           !.response = [status |-> 400, code |-> "BAD_REQUEST",
                                         message |-> "Empty request body", content |-> "envelope"]]
            ELSE [r EXCEPT !.pc = "read"]]
    /\ UNCHANGED <<alertVars, dispatchVars, streamVars, priorVars, windowVars, evalVars, beatVars, regVars>>

\* count = await ingest_traces(raw_body, org_id, project_id)
ReceiveTracesIngest(k, client) ==
    /\ http[k].pc = "read"
    /\ IngestBegin(k, http[k].project, http[k].body.payload, client)

\* ingest_traces has returned or raised: the response of the request
ReceiveTracesRespond(k) ==
    /\ http[k].pc = "read"
    /\ calls[k].pc \in {"returned", "failed"}
    /\ http' = [http EXCEPT ![k].pc = "responded", ![k].response = receive_traces_response(calls[k])]
    /\ UNCHANGED <<alertVars, dispatchVars, streamVars, priorVars, windowVars, evalVars, beatVars, regVars>>

(***************************************************************************)
(* The connection manager called directly, in any order                    *)
(* (stream_manager.ConnectionManager.connect / disconnect / broadcast and   *)
(* queue.get on a subscriber queue)                                        *)
(***************************************************************************)
NoRegOp == [op |-> "none", project |-> None, conn |-> None, first |-> 0, count |-> 0, raised |-> FALSE]

\* the queues registered under some project
Registered(chs) == UNION {chs[p] : p \in DOMAIN chs}

\* set.discard: no KeyError for an element that is not in the set
discard(set, x) == [set |-> set \ {x}, raised |-> FALSE]

\* connect(project_id): a new, empty queue is created and registered
RegConnect(c, p) ==
    /\ c \notin Registered(channels)
    /\ \A q \in Projects : <<q, c>> \notin live
    /\ channels' = connect(channels, p, c)
    /\ queue' = [queue EXCEPT ![c] = <<>>]
    /\ live' = live \cup {<<p, c>>}
    /\ regOp' = [NoRegOp EXCEPT !.op = "connect", !.project = p, !.conn = c]
    /\ UNCHANGED <<gen, stream, alertVars, dispatchVars, priorVars, windowVars, evalVars, httpVars, beatVars>>

\* disconnect(project_id, queue), for any project and any queue
RegDisconnect(c, p) ==
    /\ channels' = disconnect(channels, p, c)
    /\ live' = live \ {<<p, c>>}
    /\ regOp' = [NoRegOp EXCEPT !.op = "disconnect", !.project = p, !.conn = c,
                                !.raised = p \in DOMAIN channels /\ discard(channels[p], c).raised]
    /\ UNCHANGED <<queue, gen, stream, alertVars, dispatchVars, priorVars, windowVars, evalVars, httpVars, beatVars>>

\* broadcast(project_id, event) for n events in a row
RegBroadcast(p, n) ==
    /\ stream.broadcasts < MaxBroadcasts
    /\ LET first == stream.sent + 1
           done == broadcast_spans(channels, [qs |-> queue, raised |-> FALSE], p, first, n)
       IN /\ queue' = done.qs
          /\ stream' = [stream EXCEPT !.broadcasts = @ + 1, !.sent = @ + n]
          /\ regOp' = [NoRegOp EXCEPT !.op = "broadcast", !.project = p, !.first = first, !.count = n,
                                      !.raised = done.raised]
    /\ UNCHANGED <<channels, gen, live, alertVars, dispatchVars, priorVars, windowVars, evalVars, httpVars, beatVars>>

\* queue.get() on a subscriber queue that holds an event
RegConsume(c) ==
    /\ queue[c] # <<>>
    /\ stream.reads < MaxReads
    /\ queue' = [queue EXCEPT ![c] = Tail(@)]
    /\ stream' = [stream EXCEPT !.reads = @ + 1]
    /\ regOp' = [NoRegOp EXCEPT !.op = "consume", !.conn = c]
    /\ UNCHANGED <<channels, gen, live, alertVars, dispatchVars, priorVars, windowVars, evalVars, httpVars, beatVars>>

(***************************************************************************)
(* Notification channels of the project (models/notification_channel,      *)
(* dispatcher._get_notification_channels).  The table has at most one row  *)
(* per project and channel type (uq_notification_channels_project_type).   *)
(***************************************************************************)
ChannelRowStates == {"absent", "disabled", "enabled"}

get_notification_channels_any(rows) == {c \in Channels : rows[c] # "absent"}

\* select(NotificationChannel).where(project_id == ..., is_enabled == True)
get_notification_channels(rows) == {c \in Channels : rows[c] = "enabled"}

\* a channel row is created, enabled, disabled or deleted
ChannelSet(c, st) ==
    /\ chanRows[c] # st
    /\ chanRows' = [chanRows EXCEPT ![c] = st]
    /\ UNCHANGED <<allButTail, sizing, inst>>

\* dispatch_alert_notification with the rows the project has at that moment
DispatchConfigured == DispatchStart(get_notification_channels(chanRows))

(***************************************************************************)
(* Row sizes (utils/otlp.extract_spans): every row of a payload carries    *)
(* the same share of the payload size                                      *)
(***************************************************************************)
Max(a, b) == IF a >= b THEN a ELSE b

per_span_bytes_rounded_up(payload_size, total_spans) ==
    (payload_size + Max(total_spans, 1) - 1) \div Max(total_spans, 1)

\* per_span_bytes = payload_size // max(total_spans, 1)
per_span_bytes(payload_size, total_spans) == payload_size \div Max(total_spans, 1)

NoSizing == [op |-> "none", payload_size |-> 0, total_spans |-> 0, row_size_bytes |-> <<>>]

\* extract_spans on a payload of payload_size bytes holding total_spans spans:
\* one row per span, each with "row_size_bytes": per_span_bytes
ExtractSizes(payload_size, total_spans) ==
    /\ sizing' = [op |-> "extract_spans", payload_size |-> payload_size, total_spans |-> total_spans,
                  row_size_bytes |-> [i \in 1..total_spans |-> per_span_bytes(payload_size, total_spans)]]
    /\ sizing' # sizing
    /\ UNCHANGED <<allButTail, chanRows, inst>>

RECURSIVE SumSeq(_)
SumSeq(q) == IF q = <<>> THEN 0 ELSE Head(q) + SumSeq(Tail(q))

(***************************************************************************)
(* Concurrent scheduler loops (alert_scheduler._scheduler_loop running     *)
(* _evaluate_threshold_alerts -> alert_evaluator.fire_alert).  fire_alert  *)
(* awaits is_in_cooldown, then the commit of the insert, then set_cooldown; *)
(* another loop can run between these awaits.  A second loop runs in a     *)
(* second process, or in the same process when a start_scheduler call made *)
(* during the await of stop_scheduler left an orphaned task behind.        *)
(***************************************************************************)
Instances == {"i1", "i2"}

Hosts == {"h1", "h2"}

IdleInstance == [pc |-> "off", host |-> None, rule |-> None, value |-> 0, row |-> 0]

\* a scheduler loop begins to run in a process
InstanceStart(i, host) ==
    /\ inst[i].pc = "off"
    /\ i = "i1" => host = "h1"
    /\ inst' = [inst EXCEPT ![i] = [IdleInstance EXCEPT !.pc = "idle", !.host = host]]
    /\ UNCHANGED <<allButTail, chanRows, sizing>>

\* fire_alert up to the first await after the cooldown check: in cooldown the
\* open event is updated, otherwise the loop goes on to insert
FireCheck(i, r, v) ==
    /\ inst[i].pc = "idle"
    /\ IF is_in_cooldown(r)
       THEN /\ fire_alert(r, v)
            /\ UNCHANGED inst
       ELSE /\ inst' = [inst EXCEPT ![i] = [@ EXCEPT !.pc = "insert", !.rule = r, !.value = v]]
            /\ UNCHANGED <<events, lastOp, cooldown>>
    /\ UNCHANGED <<cache, evaluated, lastValue, env, dispatchVars, streamVars, cycleVars, lifeVars, storeVars,
                   ingestVars, windowVars, evalVars, httpVars, beatVars, regVars, chanRows, sizing>>

\* db.add(event); await db.commit(); await db.refresh(event)
FireInsert(i) ==
    /\ inst[i].pc = "insert"
    /\ Len(events) < MaxEvents
    /\ events' = Append(events, NewEvent(inst[i].rule, inst[i].value))
    /\ inst' = [inst EXCEPT ![i].pc = "set", ![i].row = Len(events) + 1]
    /\ UNCHANGED <<cache, cooldown, evaluated, lastOp, lastValue, env, dispatchVars, streamVars, cycleVars, lifeVars,
                   storeVars, ingestVars, windowVars, evalVars, httpVars, beatVars, regVars, chanRows, sizing>>

\* await alert_counters.set_cooldown(rule.id, DEFAULT_COOLDOWN_SECONDS); return event
FireSetCooldown(i) ==
    /\ inst[i].pc = "set"
    /\ cooldown' = set_cooldown(inst[i].rule, DEFAULT_COOLDOWN_SECONDS)
    /\ lastOp' = [lastOp EXCEPT ![inst[i].rule] = "inserted"]
    /\ inst' = [inst EXCEPT ![i].pc = "idle"]
    /\ UNCHANGED <<cache, events, evaluated, lastValue, env, dispatchVars, streamVars, cycleVars, lifeVars,
                   storeVars, ingestVars, windowVars, evalVars, httpVars, beatVars, regVars, chanRows, sizing>>

(***************************************************************************)
(* Initial state and specifications                                        *)
(***************************************************************************)
Init ==
    /\ cache = "up"
    /\ cooldown = [r \in Rules |-> 0]
    /\ events = <<>>
    /\ evaluated = {}
    /\ lastOp = [r \in Rules |-> "none"]
    /\ lastValue = 0
    /\ env = [manual |-> 0, cacheChanges |-> 0]
    /\ dispatch = [state |-> "idle", calls |-> 0, clock |-> 0, results |-> <<>>, notification_sent |-> FALSE]
    /\ tasks = [c \in Channels |-> IdleTask]
    /\ channels = <<>>
    /\ queue = [c \in Conns |-> <<>>]
    /\ gen = [c \in Conns |-> FreshGen]
    /\ stream = [broadcasts |-> 0, sent |-> 0, reads |-> 0,
                 last |-> [project |-> None, first |-> 0, n |-> 0, raised |-> FALSE]]
    /\ session = "ok"
    /\ fault = "none"
    /\ handed = {}
    /\ ruleCfg = [r \in Rules |-> 0]
    /\ sched = [running |-> FALSE, task |-> 0]
    /\ counters = [p \in Projects |-> EmptyBuckets]
    /\ lastCall = [op |-> "none", cache |-> "up", raised |-> FALSE, value |-> None, changed |-> FALSE]
    /\ calls = [k \in Calls |-> IdleCall]
    /\ ctasks = [k \in Calls |-> IdleCounterTask]
    /\ store = [k \in Calls |-> <<>>]
    /\ now = 0
    /\ buckets = [m \in Metrics |-> [b \in Minutes |-> 0]]
    /\ made = [m \in Metrics |-> [b \in Minutes |-> 0]]
    /\ batch = [pc |-> "idle", requests_left |-> 0, errors_left |-> 0, attempts |-> 0]
    /\ reading = [op |-> "none"]
    /\ evalCase = [op |-> "none"]
    /\ http = [k \in Calls |-> IdleRequest]
    /\ beat = [c \in Conns |-> ArmedWait]
    /\ live = {}
    /\ regOp = NoRegOp
    /\ chanRows = [c \in Channels |-> "absent"]
    /\ sizing = NoSizing
    /\ inst = [i \in Instances |-> IdleInstance]
    /\ loops = [t \in 1..MaxStarts |-> "unborn"]
    /\ stops = [c \in 1..MaxStops |-> [pc |-> "idle", awaited |-> 0]]

NextAlert ==
    \/ \E r \in Rules, v \in MetricValues : SchedFire(r, v)
    \/ \E r \in Rules : SchedResolve(r)
    \/ SchedSleep
    \/ \E e \in 1..MaxEvents : resolve_alert_event(e)
    \/ \E e \in 1..MaxEvents : acknowledge_alert_event(e)
    \/ \E s \in {"up", "down"} : CacheChange(s)

SpecAlert == Init /\ [][NextAlert]_vars

NextDispatch ==
    \/ \E enabled \in SUBSET ConfigurableChannels : DispatchStart(enabled)
    \/ \E c \in Channels, o \in {"ok", "fail", "raise"} : TaskCall(c, o)
    \/ \E c \in Channels : TaskWake(c)
    \/ DispatchTick
    \/ GatherRaise
    \/ DispatchReturn

SpecDispatch == Init /\ [][NextDispatch]_vars

NextChannels ==
    \/ \E c \in Channels, st \in ChannelRowStates : ChannelSet(c, st)
    \/ DispatchConfigured
    \/ \E c \in Channels, o \in {"ok", "fail", "raise"} : TaskCall(c, o)
    \/ \E c \in Channels : TaskWake(c)
    \/ DispatchTick
    \/ GatherRaise
    \/ DispatchReturn

SpecChannels == Init /\ [][NextChannels]_vars

NextSizes == \E payload_size \in 0..MaxPayloadSize, total_spans \in 0..MaxSpans : ExtractSizes(payload_size, total_spans)

SpecSizes == Init /\ [][NextSizes]_vars

NextInstances ==
    \/ \E i \in Instances, host \in Hosts : InstanceStart(i, host)
    \/ \E i \in Instances, r \in Rules, v \in MetricValues : FireCheck(i, r, v)
    \/ \E i \in Instances : FireInsert(i)
    \/ \E i \in Instances : FireSetCooldown(i)

SpecInstances == Init /\ [][NextInstances]_vars

NextFanout ==
    \/ \E c \in Conns, p \in Projects : RegConnect(c, p)
    \/ \E c \in Conns, p \in Projects : RegDisconnect(c, p)
    \/ \E p \in Projects, n \in BatchSizes : IngestBroadcast(p, n)
    \/ \E c \in Conns : RegConsume(c)

SpecFanout == Init /\ [][NextFanout]_vars

NextStream ==
    \/ \E c \in Conns, p \in Projects : StreamConnect(c, p)
    \/ \E c \in Conns : GenStart(c)
    \/ \E c \in Conns : GenYield(c)
    \/ \E c \in Conns : GenResume(c)
    \/ \E c \in Conns : GenClose(c)
    \/ \E c \in Conns : GenAbandon(c)
    \/ \E p \in Projects, n \in BatchSizes : IngestBroadcast(p, n)

SpecStream == Init /\ [][NextStream]_vars

NextCycle ==
    \/ \E r \in Rules : CycleEvalFails(r)
    \/ \E r \in Rules, v \in MetricValues, f \in {"none", "flush"} : CycleFire(r, v, f)
    \/ \E r \in Rules, f \in {"none", "flush"} : CycleResolve(r, f)
    \/ CycleSleep
    \/ \E r \in Rules : update_alert_rule(r)

SpecCycle == Init /\ [][NextCycle]_vars

\* scheduler cycles in which metrics queries, commits and the cache can fail
NextBlind ==
    \/ \E r \in Rules, ps \in THRESHOLD_ALERTS : CycleQueryFails(r, ps)
    \/ \E r \in Rules, v \in MetricValues, f \in {"none", "flush"} : CycleFire(r, v, f)
    \/ CycleSleep
    \/ \E s \in {"up", "down"} : CacheSwitch(s)

SpecBlind == Init /\ [][NextBlind]_vars

NextCounters ==
    \/ \E op \in CounterOps, p \in Projects, r \in Rules : StoreCall(op, p, r)
    \/ \E s \in {"up", "down", "uninit"} : CacheSwitch(s)

SpecCounters == Init /\ [][NextCounters]_vars

NextIngest ==
    \/ \E k \in Calls, p \in Projects, pl \in Payloads, cl \in {"ready", "none"} : IngestBegin(k, p, pl, cl)
    \/ \E k \in Calls, o \in {"ok", "error"} : IngestInsertDone(k, o)
    \/ \E k \in Calls : CounterStep(k)
    \/ \E st \in {"up", "down", "uninit"} : CacheSwitch(st)
    \/ \E p \in Projects : StreamConnect("c1", p)

SpecIngest == Init /\ [][NextIngest]_vars

\* ingestion with the store reachable and nobody subscribed
NextBatches ==
    \/ \E k \in Calls, p \in Projects, pl \in Payloads : IngestBegin(k, p, pl, "ready")
    \/ \E k \in Calls, o \in {"ok", "error"} : IngestInsertDone(k, o)
    \/ \E k \in Calls : CounterStep(k)
    \/ \E st \in {"up", "down", "uninit"} : CacheSwitch(st)

\* the event loop runs every task that is ready
FairSpecBatches == Init /\ [][NextBatches]_vars /\ \A k \in Calls : WF_vars(CounterStep(k))

\* ingestion that goes on for ever, with the cache available
\* the active high_error_rate rule of that project
HighErrorRateRule == "r1"

\* evaluate_high_error_rate for the rule of project p: is_triggered
evaluate_high_error_rate(p) == EvaluateHighErrorRate([num |-> get_error_rate(p), den |-> 1], RuleThreshold).is_triggered

NextCritical ==
    \/ \E k \in Calls, pl \in Payloads :
            BucketRoom(BusyProject, Len(pl.spans)) /\ IngestBegin(k, BusyProject, pl, "ready")
    \/ \E k \in Calls, o \in {"ok", "error"} : IngestInsertDone(k, o)
    \/ \E k \in Calls : CounterStep(k)
    \/ \E k \in Calls : CallReset(k)
    \/ MinuteTick

FairSpecCritical == Init /\ [][NextCritical]_vars /\ WF_vars(NextCritical)

\* the counts read over a run long enough for keys to expire
NextWindow ==
    \/ \E sh \in BatchShapes : batch.attempts + sh[1] + sh[2] <= MaxLongRunIncrements /\ BatchStart(sh[1], sh[2])
    \/ \E ok \in BOOLEAN : BatchIncrement(ok)
    \/ \E m \in Metrics, b \in Minutes : KeyExpires(m, b)
    \/ MinuteRollover
    \/ \E m \in Metrics, d \in Durations, ok \in BOOLEAN : ReadCount(m, d, ok)

SpecWindow == Init /\ [][NextWindow]_vars

\* the error rate read while batches are counted
NextRate ==
    \/ \E sh \in BatchShapes : BatchStart(sh[1], sh[2])
    \/ \E ok \in BOOLEAN : BatchIncrement(ok)
    \/ now < MaxRateMinute /\ MinuteRollover
    \/ \E d \in Durations, ok \in BOOLEAN : RateReadErrors(d, ok)
    \/ \E ok \in BOOLEAN : RateReadRequests(ok)

SpecRate == Init /\ [][NextRate]_vars

NextEval ==
    \/ \E ps \in {"high_error_rate", "service_down"}, e \in Counts, r \in Counts, t \in Thresholds : EvalCritical(ps, e, r, t)
    \/ \E ps \in {"latency_spike", "traffic_drop", "traffic_surge"}, q \in QueryResults, t \in Thresholds : EvalPercentage(ps, q, t)

SpecEval == Init /\ [][NextEval]_vars

NextBeat ==
    \/ \E c \in Conns : StreamConnect(c, BusyProject)
    \/ \E c \in Conns : GenStart(c)
    \/ \E c \in Conns : WaitGet(c)
    \/ \E c \in Conns : WaitTimeout(c)
    \/ \E c \in Conns : WaitHeartbeat(c)
    \/ \E c \in Conns : GenResume(c)
    \/ \E c \in Conns : GenClose(c)
    \/ ClockTick
    \/ IngestBroadcast(BusyProject, 1)

SpecBeat == Init /\ [][NextBeat]_vars

NextHttp ==
    \/ \E k \in Calls, key \in ApiKeys, body \in Bodies : ReceiveTraces(k, key, body)
    \/ \E k \in Calls, client \in {"ready", "none"} : ReceiveTracesIngest(k, client)
    \/ \E k \in Calls, outcome \in {"ok", "error"} : IngestInsertDone(k, outcome)
    \/ \E k \in Calls : CounterStep(k)
    \/ \E k \in Calls : ReceiveTracesRespond(k)
    \/ StreamConnect("c1", BusyProject)

SpecHttp == Init /\ [][NextHttp]_vars

NextRegistry ==
    \/ \E c \in Conns, p \in Projects : RegConnect(c, p)
    \/ \E c \in Conns, p \in Projects : RegDisconnect(c, p)
    \/ \E p \in Projects, n \in BatchSizes : RegBroadcast(p, n)
    \/ \E c \in Conns : RegConsume(c)

SpecRegistry == Init /\ [][NextRegistry]_vars

NextLifecycle ==
    \/ start_scheduler
    \/ \E c \in 1..MaxStops : StopBegin(c)
    \/ \E c \in 1..MaxStops : StopResume(c)
    \/ \E t \in 1..MaxStarts : LoopStart(t)
    \/ \E t \in 1..MaxStarts : LoopEvaluated(t)
    \/ \E t \in 1..MaxStarts : LoopWake(t)
    \/ \E t \in 1..MaxStarts : LoopCancelled(t)

SpecLifecycle == Init /\ [][NextLifecycle]_vars

\* the scheduler loop never stops by itself: it evaluates, sleeps and evaluates again
FairSpecCycle == SpecCycle /\ WF_vars(NextCycle)

(***************************************************************************)
(* Properties of the cooldown and event bookkeeping                        *)
(***************************************************************************)
IsOpen(i) == events[i].status = "triggered" \/ events[i].status = "active"

OpenRows(r) == {i \in EventIds : events[i].rule = r /\ IsOpen(i)}

LastOpenRow(r) == CHOOSE i \in OpenRows(r) : \A j \in OpenRows(r) : j <= i

\* the step is the scheduler's evaluation of rule r with a triggered result
FireStep(r) == r \notin evaluated /\ r \in evaluated' /\ lastValue' # 0

\* the step is the scheduler's evaluation of rule r with a non-triggered result
ResolveStep(r) == r \notin evaluated /\ r \in evaluated' /\ lastValue' = 0

OtherRowsUnchanged(e) == \A i \in EventIds : i # e => events'[i] = events[i]

\* C1 (first call): with the cache available and no cooldown token, fire_alert
\* inserts one row with status 'triggered' carrying the evaluation's value, and
\* sets the token.
C1_FirstCall(r) ==
    (FireStep(r) /\ cache = "up" /\ ~TokenPresent(r)) =>
        /\ Len(events') = Len(events) + 1
        /\ events'[Len(events')].rule = r
        /\ events'[Len(events')].status = "triggered"
        /\ events'[Len(events')].metric_value = lastValue'
        /\ OtherRowsUnchanged(Len(events'))
        /\ cooldown'[r] = DEFAULT_COOLDOWN_SECONDS

\* C1 (later calls): a fire_alert that follows a fire_alert on the same rule
\* while the token is present inserts nothing and sets the rule's open row to
\* 'active' with the latest value.
C1_LaterCall(r) ==
    (FireStep(r) /\ cache = "up" /\ TokenPresent(r) /\ lastOp[r] \in {"inserted", "updated"}) =>
        /\ OpenRows(r) # {}
        /\ Len(events') = Len(events)
        /\ events'[LastOpenRow(r)] = [events[LastOpenRow(r)] EXCEPT !.status = "active", !.metric_value = lastValue']
        /\ OtherRowsUnchanged(LastOpenRow(r))
        /\ lastOp'[r] = "updated"

\* C1: Cooldown idempotence. While the cooldown token set by the first call is
\* present and the cache is available, repeated fire_alert calls for a rule
\* leave exactly one row for the episode: the first call inserts it with
\* status 'triggered', every later call sets that row to 'active' and
\* overwrites its metric_value with the latest value, and inserts no row.
C1_CooldownIdempotence == [][\A r \in Rules : C1_FirstCall(r) /\ C1_LaterCall(r)]_vars

\* C1 witness: a second call in cooldown has updated the single row of its rule.
C1_Witness ==
    \E r \in Rules :
        /\ lastOp[r] = "updated"
        /\ Cardinality({i \in EventIds : events[i].rule = r}) = 1
        /\ \E i \in EventIds : events[i].rule = r /\ events[i].status = "active" /\ events[i].metric_value = lastValue

\* C2: One row per firing episode: a rule never has two open events (status
\* 'triggered' or 'active') at the same time. Stated for the runs in which the
\* cache has been available throughout.
C2_OneOpenEventPerRule ==
    env.cacheChanges = 0 => \A r \in Rules : Cardinality(OpenRows(r)) <= 1

C4_Resolve(r, cacheOk) ==
    (ResolveStep(r) /\ OpenRows(r) # {} /\ cacheOk) =>
        /\ events'[LastOpenRow(r)].status = "resolved"
        /\ events'[LastOpenRow(r)].resolved_at # None
        /\ cooldown'[r] = 0

\* the step is the triggered evaluation that follows a resolve of rule r
C4_NextFire(r, resolvedOutcomes) ==
    (FireStep(r) /\ lastOp[r] \in resolvedOutcomes) =>
        /\ lastOp'[r] = "inserted"
        /\ Len(events') = Len(events) + 1
        /\ events'[Len(events')].rule = r
        /\ events'[Len(events')].status = "triggered"
        /\ OtherRowsUnchanged(Len(events'))

C5_TerminalStatuses ==
    [][\A i \in EventIds : events[i].status \in {"resolved", "acknowledged"} => events'[i].status = events[i].status]_vars

(***************************************************************************)
(* Properties of the notification dispatcher                               *)
(***************************************************************************)
Finished(c) == tasks[c].pc \in {"done", "raised"}

\* C8: Channel isolation: the failure of one channel, including an exception
\* raised inside its dispatch function, does not make Dispatch fail: Dispatch
\* never ends by raising, and when it has ended event.notification_sent is
\* recorded from the channels that succeeded.
C8_ChannelIsolation ==
    /\ dispatch.state # "raised"
    /\ dispatch.state = "returned" =>
          dispatch.notification_sent = (\E c \in Attempted : tasks[c].pc = "done" /\ tasks[c].result.success)

\* C9: a channel's dispatch function is invoked at most twice per Dispatch; a
\* second invocation happens if and only if the first returned a failure,
\* RETRY_DELAY_SECONDS or more after it and with the same arguments; the
\* reported result is that of the last invocation and retried is true exactly
\* when there was a second invocation.
C9_RetryOnce ==
    \A c \in Channels :
        LET t == tasks[c] n == Len(t.invs) IN
        /\ n <= 2
        /\ n = 2 =>
              /\ t.invs[1].outcome = "fail"
              /\ t.invs[2].at >= t.invs[1].at + RETRY_DELAY_SECONDS
              /\ t.invs[2].args = t.invs[1].args
        /\ (Finished(c) /\ t.invs[1].outcome = "fail") => n = 2
        /\ t.pc = "done" =>
              /\ t.result.success = (t.invs[n].outcome = "ok")
              /\ t.result.retried = (n = 2)

\* C9 witness: a channel failed, was retried after the delay and then succeeded.
C9_Witness ==
    \E c \in Channels :
        /\ tasks[c].pc = "done"
        /\ Len(tasks[c].invs) = 2
        /\ tasks[c].result = [success |-> TRUE, retried |-> TRUE]

\* C10: after Dispatch returns, event.notification_sent is true if and only if
\* at least one channel's final result is a success.
C10_NotificationSent ==
    dispatch.state = "returned" =>
        (dispatch.notification_sent <=> \E c \in DOMAIN dispatch.results : dispatch.results[c].success)

\* C10 witness: Dispatch returned with one channel failed after its retry and
\* another succeeded, and the event is marked as notified.
C10_Witness ==
    /\ dispatch.state = "returned"
    /\ dispatch.notification_sent
    /\ \E c, d \in DOMAIN dispatch.results :
          /\ dispatch.results[c] = [success |-> FALSE, retried |-> TRUE]
          /\ dispatch.results[d].success

(***************************************************************************)
(* Properties of the connection manager and the stream endpoint            *)
(***************************************************************************)
Subscribers(p) == IF p \in DOMAIN channels THEN channels[p] ELSE {}

IsPrefix(q, r) == Len(q) <= Len(r) /\ SubSeq(r, 1, Len(q)) = q

\* C6: Broadcast never raises and always completes; a subscriber whose queue
\* already holds QUEUE_MAX_SIZE events keeps its queue as it is (the event is
\* dropped for it, the oldest unconsumed event stays first), and every other
\* subscriber of the project still receives the event.
C6_BroadcastDropsWhenFull ==
    [][stream'.broadcasts # stream.broadcasts =>
          LET b == stream'.last IN
          /\ ~b.raised
          /\ \A c \in Subscribers(b.project) :
                /\ Len(queue[c]) = QUEUE_MAX_SIZE => queue'[c] = queue[c]
                /\ Len(queue[c]) < QUEUE_MAX_SIZE =>
                      /\ IsPrefix(queue[c], queue'[c])
                      /\ Len(queue'[c]) > Len(queue[c])
                      /\ queue'[c][Len(queue[c]) + 1] = b.first]_vars

\* C6 witness: the last broadcast found one subscriber's queue full and left it
\* alone, while another subscriber of the same project received its event.
C6_Witness ==
    \E c, d \in Subscribers(stream.last.project) :
        /\ Len(queue[c]) = QUEUE_MAX_SIZE
        /\ queue[c][QUEUE_MAX_SIZE] < stream.last.first
        /\ queue[d] # <<>>
        /\ queue[d][Len(queue[d])] = stream.last.first + stream.last.n - 1
        /\ ~stream.last.raised

\* C7: every queue registered by the stream endpoint is unregistered once its
\* connection has ended, on every exit path: the subscribers of a project are
\* exactly its connections that have not ended.
C7_DisconnectUnregisters ==
    \A p \in Projects :
        Subscribers(p) = {c \in Conns : gen[c].project = p /\ gen[c].state \in {"created", "waiting", "yielded"}}

(***************************************************************************)
(* Properties of the scheduler cycle                                       *)
(***************************************************************************)
\* C11: within one cycle the failure of one rule does not make a later rule
\* fail: a rule whose own evaluation, fire and resolve meet no fault is fired
\* or resolved normally, whatever happened to the rules handled before it.
C11_FailureIsolation ==
    [][\A r \in Rules : (r \notin evaluated /\ r \in evaluated' /\ fault' = "none") => lastOp'[r] # "error"]_vars

\* C13: every AlertEvent created by the scheduler's fire path is eventually
\* handed to the notification dispatcher.
C13_FiredEventsReachDispatcher ==
    \A i \in 1..MaxEvents : (i \in EventIds) ~> (i \in handed)

\* C15: every AlertEvent created by fire_alert carries a rule_snapshot equal to
\* the rule's configuration at the moment of firing, and the snapshot of an
\* existing event never changes afterwards.
C15_SnapshotAtFiring ==
    [][\A i \in 1..Len(events') :
          /\ HasSnapshot(events'[i])
          /\ i > Len(events) => events'[i].rule_snapshot = RuleConfig(events'[i].rule)
          /\ i <= Len(events) => events'[i].rule_snapshot = events[i].rule_snapshot]_vars

(***************************************************************************)
(* Properties of the scheduler lifecycle                                   *)
(***************************************************************************)
\* C12: after any interleaving of start_scheduler and stop_scheduler calls at
\* most one scheduler loop that can still begin an evaluation cycle is alive
\* (a task already cancelled and about to end is not counted).
C12_SingleLoop == Cardinality(LiveLoops) <= 1

(***************************************************************************)
(* Properties of the counter store                                         *)
(***************************************************************************)
\* C20: with the cache unavailable in either form (operations error, or the
\* client cannot be obtained) no counter-store function raises to its caller:
\* each returns its degraded value (0 or false) and changes nothing.
C20_DegradesNeverRaises ==
    lastCall.cache # "up" =>
        /\ ~lastCall.raised
        /\ lastCall.value = Degraded(lastCall.op)
        /\ ~lastCall.changed

(***************************************************************************)
(* Ingestion claims                                                        *)
(***************************************************************************)
CallFinished(k) == calls[k].pc \in {"returned", "failed"}

\* the one insert call ingest_traces makes for the spans of a call c
InsertFor(c) ==
    LET spans == extract_spans(c.payload, c.project)
    IN [table |-> "spans",
        rows |-> [i \in 1..Len(spans) |-> [j \in 1..Len(SPANS_COLUMNS) |-> spans[i][SPANS_COLUMNS[j]]]],
        column_names |-> SPANS_COLUMNS]

InsertOf(k) == InsertFor(calls[k])

\* C16: a finished Ingest call for a decodable payload of N >= 1 spans, made
\* while the store is reachable and accepts the write, has made exactly one
\* insert into the table spans, of N rows laid out in SPANS_COLUMNS order, and
\* has returned N.
C16_OneInsertOfNRows ==
    \A k \in Calls :
        (/\ CallFinished(k)
         /\ calls[k].payload.decodable
         /\ Len(calls[k].payload.spans) >= 1
         /\ calls[k].client = "ready"
         /\ calls[k].insert # "error")
        => /\ calls[k].pc = "returned"
           /\ calls[k].result = Len(calls[k].payload.spans)
           /\ store[k] = <<InsertOf(k)>>

\* C17: when the insert of a call fails, the call fails without a span count,
\* no counter task exists for it at that moment or later, and the step changes
\* no counter bucket and no subscriber queue.
C17_WriteFailureIsFatal ==
    [][\A k \in Calls :
            calls'[k].insert = "error"
            => /\ calls'[k].pc = "failed"
               /\ calls'[k].result = None
               /\ ctasks'[k].pc = "none"
               /\ calls[k].pc = "inserting" => (counters' = counters /\ queue' = queue /\ stream' = stream)]_vars

C17_Witness ==
    \E k \in Calls :
        /\ calls[k].insert = "error"
        /\ calls[k].pc = "failed"
        /\ connection_count(channels, calls[k].project) > 0
        /\ cache = "up"
        /\ counters[calls[k].project].requests = 0

\* what a call c comes to, by its payload, the store client and the result of
\* the insert alone
ExpectedOutcome(c) ==
    IF ~c.payload.decodable \/ extract_raises(c.payload)
    THEN [pc |-> "failed", error |-> "ValueError", result |-> None, written |-> FALSE]
    ELSE IF Len(c.payload.spans) = 0
    THEN [pc |-> "returned", error |-> "none", result |-> 0, written |-> FALSE]
    ELSE IF c.client = "none"
    THEN [pc |-> "failed", error |-> "RuntimeError", result |-> None, written |-> FALSE]
    ELSE IF c.insert = "error"
    THEN [pc |-> "failed", error |-> "StoreError", result |-> None, written |-> FALSE]
    ELSE [pc |-> "returned", error |-> "none", result |-> Len(c.payload.spans), written |-> TRUE]

\* C18: when a call finishes, its outcome (the span count or the error) and
\* the rows it wrote are those that its payload, the store client and the
\* insert determine, whatever the state of the cache; the step changes no
\* counter bucket, and a call that returns a count of spans leaves its counter
\* task running with no increment made yet.
C18_CacheNeverAffectsIngest ==
    [][\A k \in Calls :
            (calls[k].pc \notin {"returned", "failed"} /\ calls'[k].pc \in {"returned", "failed"})
            => LET e == ExpectedOutcome(calls'[k])
               IN /\ calls'[k].pc = e.pc
                  /\ calls'[k].error = e.error
                  /\ e.pc = "returned" => calls'[k].result = e.result
                  /\ e.pc = "failed" => calls'[k].result = None
                  /\ store'[k] = IF e.written THEN <<InsertFor(calls'[k])>> ELSE <<>>
                  /\ counters' = counters
                  /\ e.written => (/\ ctasks'[k].pc = "running"
                                   /\ ctasks'[k].requests_done = 0
                                   /\ ctasks'[k].errors_done = 0)]_vars

\* two calls with the same payload, one made with the cache available and one
\* with the cache not initialised, whose counter task failed
C18_Witness ==
    /\ calls["k1"].pc = "returned"
    /\ calls["k2"].pc = "returned"
    /\ calls["k1"].payload = calls["k2"].payload
    /\ calls["k1"].project = calls["k2"].project
    /\ Len(calls["k1"].payload.spans) >= 1
    /\ calls["k1"].cacheAt = "up"
    /\ calls["k2"].cacheAt = "uninit"
    /\ calls["k1"].result = calls["k2"].result
    /\ store["k1"] = store["k2"]
    /\ ctasks["k2"].pc = "done"
    /\ ~ctasks["k2"].clean

\* the spans of call k, and those of them with status ERROR
BatchSize(k) == Len(calls[k].payload.spans)

BatchErrors(k) == Cardinality({i \in 1..Len(calls[k].payload.spans) : calls[k].payload.spans[i].status = "ERROR"})

\* increments that the tasks of project p have had applied to the metric
AppliedTo(p, metric) ==
    LET done(k) == IF ctasks[k].project # p THEN 0
                   ELSE IF metric = "requests" THEN ctasks[k].requests_done ELSE ctasks[k].errors_done
    IN done("k1") + done("k2")

\* every increment made so far by every task met an available cache
BatchesExact ==
    /\ \A p \in Projects :
          /\ counters[p].requests + counters[p].requests_prev = AppliedTo(p, "requests")
          /\ counters[p].errors + counters[p].errors_prev = AppliedTo(p, "errors")
    /\ \A k \in Calls :
          (ctasks[k].pc # "none" /\ ctasks[k].clean)
          => /\ ctasks[k].project = calls[k].project
             /\ ctasks[k].requests_done + ctasks[k].requests_left = BatchSize(k)
             /\ ctasks[k].errors_done + ctasks[k].errors_left = BatchErrors(k)
             /\ ctasks[k].pc = "done" => (ctasks[k].requests_left = 0 /\ ctasks[k].errors_left = 0)

\* C19: the buckets of each project hold exactly the increments its batches
\* have applied, a counter task that met an available cache at every increment
\* ends having added the N requests and E errors of its batch to its own
\* project, and every counter task ends.
C19_ExactCounts ==
    /\ []BatchesExact
    /\ \A k \in Calls : (ctasks[k].pc = "running") ~> (ctasks[k].pc = "done")

\* two batches of the same project, both counted in full
C19_Witness ==
    /\ ctasks["k1"].pc = "done" /\ ctasks["k1"].clean
    /\ ctasks["k2"].pc = "done" /\ ctasks["k2"].clean
    /\ ctasks["k1"].project = "p1" /\ ctasks["k2"].project = "p1"
    /\ BatchSize("k1") = 2 /\ BatchSize("k2") = 1
    /\ counters["p1"].requests = 3
    /\ counters["p1"].errors = 2
    /\ counters["p2"] = EmptyBuckets

\* C14: a project whose windowed error rate stays above the threshold of its
\* active high_error_rate rule from some moment on, and which keeps ingesting
\* batches, eventually has an alert event of that rule.
C14_CriticalRuleFires ==
    (/\ <>[]evaluate_high_error_rate(BusyProject)
     /\ []<>(\E k \in Calls : calls[k].pc = "returned" /\ calls[k].project = BusyProject /\ BatchSize(k) >= 1))
    => <>(\E i \in EventIds : events[i].rule = HighErrorRateRule)

(***************************************************************************)
(* Counter window claims                                                   *)
(***************************************************************************)
\* C21: a count read with window N while the cache answers equals the number
\* of increments applied to that metric during the current minute and the
\* N - 1 minutes before it, for the window of every rule duration.
C21_WindowSumsIncrements ==
    [][(/\ reading'.op = "get_count"
        /\ reading'.ok
        /\ <<now, buckets, made, batch>>' = <<now, buckets, made, batch>>)
       => reading'.value = SumMinutes(made[reading'.metric], now, reading'.window)]_vars

\* C22: the error rate returned is 0.0 when the request count read is zero and
\* 100 * errors / requests otherwise, and lies between 0 and 100.
C22_RateIsPercentage ==
    (reading.op = "get_error_rate" /\ reading.pc = "returned")
    => /\ reading.value = IF reading.request_count = 0
                          THEN [num |-> 0, den |-> 1]
                          ELSE [num |-> 100 * reading.error_count, den |-> reading.request_count]
       /\ 0 <= reading.value.num
       /\ reading.value.num <= 100 * reading.value.den

(***************************************************************************)
(* Evaluation claims                                                       *)
(***************************************************************************)
PercentagePresets == {"latency_spike", "traffic_drop", "traffic_surge"}

\* C23: a percentage evaluation whose baseline of the previous hour is zero or
\* missing (no row, a NULL, or a failed query) is not triggered, whatever the
\* current value and the threshold.
C23_ZeroBaselineNeverTriggers ==
    (evalCase.op \in PercentagePresets /\ PreviousOf(evalCase.query) = 0)
    => ~evalCase.result.is_triggered

\* C24: with a baseline above zero, latency_spike and traffic_surge are
\* triggered exactly when the increase of the current value over the baseline,
\* in percent of the baseline, is at least the threshold, and traffic_drop
\* exactly when the decrease in percent is at least the threshold.
C24_InclusiveComparison ==
    (evalCase.op \in PercentagePresets /\ PreviousOf(evalCase.query) > 0)
    => LET c == CurrentOf(evalCase.query)
           b == PreviousOf(evalCase.query)
           t == evalCase.threshold
       IN evalCase.result.is_triggered <=>
            IF evalCase.op = "traffic_drop"
            THEN (b - c) * 100 >= t * b
            ELSE (c - b) * 100 >= t * b

C26_HeartbeatOnlyWhenIdle ==
    [][\A c \in Conns :
         (gen[c].state = "waiting" /\ gen'[c].state = "yielded")
         => IF beat'[c].kind = "heartbeat"
            THEN /\ queue[c] = <<>>
                 /\ queue'[c] = <<>>
                 /\ beat'[c].beats = beat[c].beats + 1
                 /\ beat'[c].waited = 0
            ELSE /\ queue[c] # <<>>
                 /\ gen'[c].out = Head(queue[c])
                 /\ queue'[c] = Tail(queue[c])]_vars

\* ingest_traces was never called for the request in slot k
IngestNeverInvoked(k) == calls[k] = IdleCall /\ store[k] = <<>> /\ ctasks[k] = IdleCounterTask

\* C27: every answered request to the ingestion endpoint has one outcome: a
\* missing or invalid API key gives 401 and ingest_traces is not invoked; an
\* empty body gives 400 and ingest_traces is not invoked; a body that cannot
\* be decoded gives 400 with the decode error message and nothing is written,
\* counted or broadcast; a successful ingest gives 200 with an empty body
C27_EndpointOutcomes ==
    \A k \in Calls :
      http[k].pc = "responded" =>
        LET r == http[k].response
        IN /\ http[k].key # "valid" => (r.status = 401 /\ IngestNeverInvoked(k))
           /\ (http[k].key = "valid" /\ http[k].body.empty)
                => (r.status = 400 /\ r.message = "Empty request body" /\ IngestNeverInvoked(k))
           /\ (http[k].key = "valid" /\ ~http[k].body.empty /\ ~http[k].body.payload.decodable)
                => /\ r.status = 400
                   /\ r.message = "Malformed OTLP protobuf payload"
                   /\ calls[k].insert = None
                   /\ store[k] = <<>>
                   /\ ctasks[k] = IdleCounterTask
           /\ (http[k].key = "valid" /\ ~http[k].body.empty /\ calls[k].pc = "returned")
                => (r.status = 200 /\ r.content = "empty")
           /\ r.status = 200 => (http[k].key = "valid" /\ ~http[k].body.empty /\ calls[k].pc = "returned")

\* a stored batch answered 200 while another request was refused for its key,
\* with a subscriber connected
C27_Witness ==
    /\ http["k1"].pc = "responded" /\ http["k1"].response.status = 200 /\ store["k1"] # <<>>
    /\ http["k2"].pc = "responded" /\ http["k2"].response.status = 401
    /\ connection_count(channels, BusyProject) > 0

\* C28: after any sequence of connect and disconnect calls no project entry
\* of the registry has an empty queue set and connection_count(project) is
\* the number of queues connected to the project and not yet disconnected; a
\* disconnect of an unknown project, of a queue that is not registered under
\* the project, or of a queue already disconnected changes nothing and does
\* not raise
C28_RegistryExact ==
    /\ [](/\ \A p \in DOMAIN channels : channels[p] # {}
          /\ \A p \in Projects : connection_count(channels, p) = Cardinality({c \in Conns : <<p, c>> \in live}))
    /\ [][(regOp'.op = "disconnect" /\ <<regOp'.project, regOp'.conn>> \notin live)
          => (channels' = channels /\ queue' = queue /\ ~regOp'.raised)]_vars

\* the last queue of a project has been disconnected, and was then
\* disconnected again, while the other project keeps its subscriber
C28_Witness ==
    /\ regOp.op = "disconnect"
    /\ regOp.project \notin DOMAIN channels
    /\ <<regOp.project, regOp.conn>> \notin live
    /\ \E p \in Projects : connection_count(channels, p) = 1
    /\ queue[regOp.conn] # <<>>

\* C29: after any sequence of connect, disconnect, broadcast and consume
\* operations every subscriber queue holds at most QUEUE_MAX_SIZE events
C29_QueueBounded == \A c \in Conns : Len(queue[c]) <= QUEUE_MAX_SIZE

\* a full queue after more events were offered than it can hold
C29_Witness ==
    \E c \in Conns : Len(queue[c]) = QUEUE_MAX_SIZE /\ stream.sent > QUEUE_MAX_SIZE /\ c \in Registered(channels)

\* the events first .. first+n-1 in order
EventsFrom(first, n) == [i \in 1..n |-> first + i - 1]

\* C30: a broadcast to project A appends the event to every queue registered
\* under A that has room and to no other queue; the queues of other projects
\* and the registry are unchanged, and a broadcast to a project without
\* subscribers changes nothing
C30_BroadcastFrame ==
    [][regOp'.op = "broadcast"
       => /\ channels' = channels
          /\ \A c \in Conns :
               queue'[c] = IF regOp'.project \in DOMAIN channels /\ c \in channels[regOp'.project]
                           THEN queue[c] \o EventsFrom(regOp'.first, Min(regOp'.count, QUEUE_MAX_SIZE - Len(queue[c])))
                           ELSE queue[c]]_vars

\* one event broadcast to a project with a subscriber while another project
\* has a subscriber of its own, whose queue stays empty
C30_Witness ==
    /\ regOp.op = "broadcast" /\ regOp.count = 1
    /\ DOMAIN channels = Projects
    /\ \E c \in channels[regOp.project] : queue[c] = <<regOp.first>>
    /\ \E c \in Conns : c \in Registered(channels) /\ c \notin channels[regOp.project] /\ queue[c] = <<>>

\* C31: every dispatch attempts email, whatever rows the project has, and
\* each enabled slack or discord channel, and no disabled or absent one; a
\* dispatch that returns gives exactly one result for each channel attempted
C31_EmailAlwaysEnabledOnly ==
    /\ [][dispatch'.calls = dispatch.calls + 1
          => {c \in Channels : tasks'[c].pc # "none"}
               = {"email"} \cup {c \in ConfigurableChannels : chanRows[c] = "enabled"}]_vars
    /\ [](dispatch.state = "returned"
          => /\ DOMAIN dispatch.results = Attempted
             /\ "email" \in DOMAIN dispatch.results
             /\ \A c \in Attempted : tasks[c].args = <<c, dispatch.calls>>)

\* a dispatch has returned results for email and slack while the email row
\* is disabled and the discord row is disabled
C31_Witness ==
    /\ dispatch.state = "returned"
    /\ DOMAIN dispatch.results = {"email", "slack"}
    /\ chanRows["email"] = "disabled"
    /\ chanRows["discord"] = "disabled"
    /\ chanRows["slack"] = "enabled"

\* C32: when the decoded payload holds no span, ingest_traces returns 0 and
\* has no side effect: nothing is written to the columnar store, no counter
\* is incremented and nothing is broadcast
C32_ZeroSpansNoEffect ==
    /\ [](\A k \in Calls :
            (calls[k].pc # "idle" /\ calls[k].payload.decodable /\ Len(calls[k].payload.spans) = 0)
            => /\ calls[k].pc = "returned"
               /\ calls[k].result = 0
               /\ calls[k].insert = None
               /\ store[k] = <<>>
               /\ ctasks[k] = IdleCounterTask)
    /\ [][\A k \in Calls :
            (calls[k].pc = "idle" /\ calls'[k].pc # "idle"
             /\ calls'[k].payload.decodable /\ Len(calls'[k].payload.spans) = 0)
            => <<store, ctasks, counters, queue, stream, channels>>' = <<store, ctasks, counters, queue, stream, channels>>]_vars

\* a request with a decodable body of zero spans was answered 200 with a
\* subscriber connected and no store client available
C32_Witness ==
    \E k \in Calls :
        /\ calls[k].pc = "returned"
        /\ calls[k].payload.decodable /\ Len(calls[k].payload.spans) = 0
        /\ calls[k].client = "none"
        /\ http[k].pc = "responded" /\ http[k].response.status = 200
        /\ connection_count(channels, BusyProject) > 0

\* C33: for a payload of P bytes decoded into N >= 1 spans every row's
\* row_size_bytes is P div N, so the sizes of the batch sum to at most P and
\* to more than P - N
C33_RowSizesWithinPayload ==
    (sizing.op = "extract_spans" /\ sizing.total_spans >= 1)
    => /\ Len(sizing.row_size_bytes) = sizing.total_spans
       /\ \A i \in 1..sizing.total_spans :
            /\ sizing.row_size_bytes[i] * sizing.total_spans <= sizing.payload_size
            /\ (sizing.row_size_bytes[i] + 1) * sizing.total_spans > sizing.payload_size
       /\ SumSeq(sizing.row_size_bytes) <= sizing.payload_size
       /\ SumSeq(sizing.row_size_bytes) > sizing.payload_size - sizing.total_spans

\* a payload whose size is no multiple of its span count: the remainder is lost
C33_Witness ==
    /\ sizing.op = "extract_spans"
    /\ sizing.payload_size = 10
    /\ sizing.total_spans = 3
    /\ SumSeq(sizing.row_size_bytes) = 9

\* C34: two loops that both saw "not in cooldown" for a rule and each
\* inserted a 'triggered' event for it within one cooldown window are loops
\* of two scheduler instances; within a single instance this does not occur
C34_DuplicateOnlyAcrossInstances ==
    \A i, j \in Instances :
        (/\ i # j
         /\ inst[i].row # 0 /\ inst[j].row # 0
         /\ inst[i].row # inst[j].row
         /\ inst[i].rule = inst[j].rule)
        => inst[i].host # inst[j].host

\* C35: the summaries of an ingested batch of n spans are broadcast only
\* when the project has a subscriber at that moment; each subscriber of the
\* project then receives them in batch order as one run, and a subscriber
\* with fewer than n free slots receives exactly the first spans that fit
C35_BatchFanout ==
    [][stream'.broadcasts = stream.broadcasts + 1
       => LET p == stream'.last.project
              n == stream'.last.n
              first == stream'.last.first
          IN /\ first = stream.sent + 1
             /\ channels' = channels
             /\ \A c \in Conns :
                  queue'[c] = IF connection_count(channels, p) > 0 /\ c \in channels[p]
                              THEN queue[c] \o EventsFrom(first, Min(n, QUEUE_MAX_SIZE - Len(queue[c])))
                              ELSE queue[c]]_vars

\* a batch of QUEUE_MAX_SIZE spans was broadcast to a subscriber that already
\* held an event: it holds that event and the first spans that fit, and the
\* last span of the batch is lost
C35_Witness ==
    \E c \in Conns :
        /\ stream.last.n = QUEUE_MAX_SIZE
        /\ stream.last.first > 1
        /\ c \in Registered(channels)
        /\ Len(queue[c]) = QUEUE_MAX_SIZE
        /\ queue[c][1] < stream.last.first
        /\ queue[c][QUEUE_MAX_SIZE] = stream.last.first + QUEUE_MAX_SIZE - 2

\* C36: after fire_alert has completed for a triggered evaluation the rule
\* has an open event (status 'triggered' or 'active') that carries the
\* evaluation's metric value, also when the rule's previous event was
\* acknowledged or resolved by hand while the cooldown token is present
C36_FiringLeavesOpenEvent ==
    [][\A r \in Rules :
         FireStep(r)
         => \E i \in 1..Len(events') :
              /\ events'[i].rule = r
              /\ events'[i].status \in OpenStatuses
              /\ events'[i].metric_value = lastValue']_vars

C38_OutageInsertsEveryCycle ==
    [][\A r \in Rules :
         (FireStep(r) /\ cache = "down")
         => /\ Len(events') = Len(events) + 1
            /\ events'[Len(events')] = NewEvent(r, lastValue')
            /\ \A i \in EventIds : events'[i] = events[i]
            /\ cooldown' = cooldown
            /\ lastOp'[r] = "inserted"]_vars

\* two triggered evaluations of the same rule have each added a 'triggered'
\* row during the outage, and no token was set
C38_Witness ==
    /\ cache = "down"
    /\ \E r \in Rules :
         /\ lastOp[r] = "inserted"
         /\ cooldown[r] = 0
         /\ \E i, j \in EventIds :
              /\ i < j
              /\ events[i].rule = r /\ events[i].status = "triggered"
              /\ events[j].rule = r /\ events[j].status = "triggered"

\* C39: when the metrics query of a threshold evaluation fails, the result is
\* not-triggered with metric value 0 (threshold above 0), and in that same
\* cycle the scheduler resolves the rule's most recent open event and clears
\* the rule's cooldown
C39_FailedQueryResolves ==
    [][\A r \in Rules :
         (r \notin evaluated /\ r \in evaluated' /\ fault' = "query")
         => /\ lastValue' = 0
            /\ OpenRows(r) # {}
               => /\ events'[LastOpenRow(r)].status = "resolved"
                  /\ cooldown'[r] = 0]_vars

\* C39, without the failures it does not speak of: the cycle's session is
\* usable and the cache is available
C39_FailedQueryResolvesHealthy ==
    [][\A r \in Rules :
         (r \notin evaluated /\ r \in evaluated' /\ fault' = "query" /\ session = "ok" /\ cache = "up")
         => /\ lastValue' = 0
            /\ OpenRows(r) # {}
               => /\ events'[LastOpenRow(r)].status = "resolved"
                  /\ OtherRowsUnchanged(LastOpenRow(r))
                  /\ cooldown'[r] = 0]_vars

\* an open event was resolved by an evaluation whose query had failed
C39_BlindResolve ==
    /\ fault = "query"
    /\ \E r \in Rules :
         /\ lastOp[r] = "resolved_in_cooldown"
         /\ cooldown[r] = 0
         /\ \E i \in EventIds : events[i].rule = r /\ events[i].status = "resolved"

\* C40: in every reachable state every stored AlertEvent has a status that
\* the alert-history output schema accepts ('active', 'resolved',
\* 'acknowledged'), so the stored events can be returned by get_alert_history
C40_StoredStatusesAccepted ==
    /\ \A i \in EventIds : events[i].status \in AlertEventStatus
    /\ ~get_alert_history(events).raised

\* C40 for the rows that have left the state fire_alert inserts them in
C40_AcceptedOnceTouched ==
    \A i \in EventIds : events[i].status # "triggered" => events[i].status \in AlertEventStatus

====
